---- MODULE Spec2Model ----
(***************************************************************************)
(* Sales-forecast analytics (forecast.py, dashboard.py,                     *)
(* dashboard_enhanced.py): the analyzers as operators over a snapshot of    *)
(* opportunity rows, and one action per analyzer call.                      *)
(*                                                                          *)
(* Numbers.  Python floats are modelled by exact rationals [n, d] in        *)
(* lowest terms with d > 0, so that equal values are equal records.         *)
(* Dates.  A raw date field is the triple <<y, m, d>> that the text         *)
(* "YYYY-MM-DD" denotes; parse_date turns it into a day ordinal.  The wall  *)
(* clock (datetime.now()) is counted in hours since 2024-01-01 00:00.       *)
(* Results.  Every analyzer result is a record with a field `outcome`:      *)
(* "notrun" before the call, "ok" when the call returned, otherwise the     *)
(* name of the exception the call raised.                                   *)
(***************************************************************************)
EXTENDS Integers, Sequences, FiniteSets, TLC

\* ------------------------------------------------------------------ bounds
MaxOpps == 3

\* rows of a file in the rep-performance runs (a tier needs 3 closed deals of
\* one rep next to a deal of another)
MaxRepOpps == 4

\* rows of a file in the monthly-trend runs (four close months, so that the
\* window of the last three leaves one out)
MaxTrendOpps == 4

\* rows in a file of the coaching lists
MaxCoachingOpps == 5

\* --------------------------------------------------------------- rationals
Abs(x) == IF x < 0 THEN -x ELSE x

RECURSIVE GCD(_, _)
GCD(a, b) == IF b = 0 THEN a ELSE GCD(b, a % b)

Q(n, d) ==
    LET g == GCD(Abs(n), d)
    IN  [n |-> n \div g, d |-> d \div g]

QI(i) == [n |-> i, d |-> 1]

QAdd(x, y) == Q(x.n * y.d + y.n * x.d, x.d * y.d)

QSub(x, y) == Q(x.n * y.d - y.n * x.d, x.d * y.d)

QMul(x, y) == Q(x.n * y.n, x.d * y.d)

QDiv(x, y) == IF y.n > 0 THEN Q(x.n * y.d, x.d * y.n) ELSE Q(-(x.n * y.d), x.d * (-y.n))

QLt(x, y) == x.n * y.d < y.n * x.d

QLe(x, y) == x.n * y.d <= y.n * x.d

QMin(x, y) == IF QLt(y, x) THEN y ELSE x

Zero == QI(0)

One == QI(1)

\* ------------------------------------------------------ sequences of values
RECURSIVE SumInt(_)
SumInt(s) == IF s = <<>> THEN 0 ELSE SumInt(SubSeq(s, 1, Len(s) - 1)) + s[Len(s)]

RECURSIVE SumQ(_)
SumQ(s) == IF s = <<>> THEN Zero ELSE QAdd(SumQ(SubSeq(s, 1, Len(s) - 1)), s[Len(s)])

MapSeq(s, F(_)) == [i \in 1..Len(s) |-> F(s[i])]

\* dict.get(key, default)
Get(m, k, default) == IF k \in DOMAIN m THEN m[k] ELSE default

\* ----------------------------------------------------------------- stages
stage_order == <<"Discovery", "Demo", "Proposal", "Negotiation">>

StageNames == {stage_order[i] : i \in 1..Len(stage_order)}

DEFAULT_PROBABILITIES ==
    [s \in StageNames |->
        CASE s = "Discovery"   -> Q(10, 100)
          [] s = "Demo"        -> Q(30, 100)
          [] s = "Proposal"    -> Q(50, 100)
          [] s = "Negotiation" -> Q(70, 100)]

\* ------------------------------------------------------------------ dates
DaysInMonth(y, m) ==
    IF m = 2 THEN (IF y % 4 = 0 /\ (y % 100 # 0 \/ y % 400 = 0) THEN 29 ELSE 28)
    ELSE IF m \in {4, 6, 9, 11} THEN 30 ELSE 31

RECURSIVE DaysBeforeMonth(_, _)
DaysBeforeMonth(y, m) ==
    IF m = 1 THEN 0 ELSE DaysBeforeMonth(y, m - 1) + DaysInMonth(y, m - 1)

\* datetime.strptime(date_str, '%Y-%m-%d'): midnight of the day, as the number
\* of days since 2024-01-01 (the rows of the model are all dated in 2024).
parse_date(date_str) == DaysBeforeMonth(date_str[1], date_str[2]) + (date_str[3] - 1)

\* dt.strftime('%Y-%m'); the keys sort as the strings do
MonthKey(date_str) == date_str[1] * 100 + date_str[2]

\* (today - created).days for today = datetime.now() given in hours:
\* timedelta.days is the floor of the difference in days
DaysSince(now_hours, created_day) == (now_hours - 24 * created_day) \div 24

\* ------------------------------------------------------------ python bits
RECURSIVE Fold(_, _, _)
Fold(F(_, _), acc, s) == IF s = <<>> THEN acc ELSE Fold(F, F(acc, Head(s)), Tail(s))

\* d[k] = v on a dict
DictSet(d, k, v) == [x \in (DOMAIN d) \cup {k} |-> IF x = k THEN v ELSE d[x]]

\* float(opp['amount']); the raw field is the whole number its text denotes
float(amount) == QI(amount)

\* a raised exception, as a value
Raise(e) == [raised |-> e]

IsRaise(v) == "raised" \in DOMAIN v

\* the first exception among the values computed by a call, in evaluation order
RECURSIVE FirstRaise(_)
FirstRaise(vals) ==
    IF vals = <<>> THEN "ok"
    ELSE IF IsRaise(Head(vals)) THEN Head(vals).raised
    ELSE FirstRaise(Tail(vals))

\* what a call returns: rec when nothing it evaluated raised
Return(vals, rec) ==
    IF FirstRaise(vals) = "ok" THEN rec ELSE [outcome |-> FirstRaise(vals)]

NotRun == [outcome |-> "notrun"]

\* statistics.mean over ints / floats
mean(data) ==
    IF Len(data) < 1 THEN Raise("StatisticsError")
    ELSE Q(SumInt(data), Len(data))

meanQ(data) ==
    IF Len(data) < 1 THEN Raise("StatisticsError")
    ELSE QDiv(SumQ(data), QI(Len(data)))

\* sorted(data) for a list of ints (insertion, stable)
RECURSIVE Insert(_, _)
Insert(sorted, v) ==
    IF sorted = <<>> THEN <<v>>
    ELSE IF v < Head(sorted) THEN <<v>> \o sorted
    ELSE <<Head(sorted)>> \o Insert(Tail(sorted), v)

sorted(data) == Fold(Insert, <<>>, data)

\* statistics.median
median(data) ==
    LET s == sorted(data)
        n == Len(s)
    IN  IF n = 0 THEN Raise("StatisticsError")
        ELSE IF n % 2 = 1 THEN QI(s[(n \div 2) + 1])
        ELSE Q(s[n \div 2] + s[(n \div 2) + 1], 2)

\* opp.get('last_stage', opp['stage'])
GetLastStage(opp) == Get(opp, "last_stage", opp.stage)

\* (closed - created).days of a closed opportunity
CycleDays(opp) == parse_date(opp.close_date) - parse_date(opp.created_date)

\* --------------------------------------------- dashboard.calculate_metrics
\* stage_probabilities.get(stage, 0)
StageProbability_default_one(probs, stage) == Get(probs, stage, One)

StageProbability(probs, stage) == Get(probs, stage, Zero)

\* len(won_opps) / len(closed_opps) if closed_opps else 0
win_rate_of_won_per_lost(won_opps, closed_opps) ==
    IF Len(closed_opps) - Len(won_opps) > 0
    THEN Q(Len(won_opps), Len(closed_opps) - Len(won_opps))
    ELSE Zero

\* the division without its guard
win_rate_of_unguarded(won_opps, closed_opps) ==
    IF closed_opps = <<>> THEN Raise("ZeroDivisionError")
    ELSE Q(Len(won_opps), Len(closed_opps))

win_rate_of(won_opps, closed_opps) ==
    IF closed_opps # <<>> THEN Q(Len(won_opps), Len(closed_opps)) ELSE Zero

calculate_metrics(opps, probs) ==
    LET open_opps   == SelectSeq(opps, LAMBDA opp: opp.status = "Open")
        closed_opps == SelectSeq(opps, LAMBDA opp: opp.status \in {"Won", "Lost"})
        won_opps    == SelectSeq(opps, LAMBDA opp: opp.status = "Won")
        total_pipeline == SumQ([i \in 1..Len(open_opps) |-> float(open_opps[i].amount)])
        weighted_forecast ==
            SumQ([i \in 1..Len(open_opps) |->
                     QMul(float(open_opps[i].amount),
                          StageProbability(probs, open_opps[i].stage))])
        win_rate == win_rate_of(won_opps, closed_opps)
        avg_deal_size ==
            IF won_opps # <<>>
            THEN meanQ([i \in 1..Len(won_opps) |-> float(won_opps[i].amount)])
            ELSE Zero
        avg_cycle ==
            IF won_opps # <<>>
            THEN mean([i \in 1..Len(won_opps) |-> CycleDays(won_opps[i])])
            ELSE Zero
        sales_velocity ==
            IF won_opps # <<>>
            THEN (IF QLt(Zero, avg_cycle)
                  THEN QDiv(QMul(QMul(QI(Len(open_opps)), win_rate), avg_deal_size), avg_cycle)
                  ELSE Zero)
            ELSE Zero
    IN  Return(<<win_rate, avg_deal_size, avg_cycle>>,
               [outcome |-> "ok",
                total_pipeline |-> total_pipeline,
                weighted_forecast |-> weighted_forecast,
                win_rate |-> win_rate,
                avg_deal_size |-> avg_deal_size,
                num_open |-> Len(open_opps),
                num_won |-> Len(won_opps),
                num_lost |-> Len(SelectSeq(opps, LAMBDA o: o.status = "Lost")),
                avg_cycle |-> avg_cycle,
                sales_velocity |-> sales_velocity])

\* -------------------------------------------- dashboard.export_forecast_to_csv
\* f"{probability:.0%}": the percentage rounded to a whole number, a tie going to
\* the even one; the text is that number followed by '%'
format_percent(probability) ==
    LET x == QMul(probability, QI(100))
        whole == x.n \div x.d
        twice_rest == 2 * (x.n - whole * x.d)
    IN  IF twice_rest < x.d THEN whole
        ELSE IF twice_rest > x.d THEN whole + 1
        ELSE IF whole % 2 = 0 THEN whole ELSE whole + 1

\* opp['opportunity_name']: the rows of the model carry no name of their own
opportunity_name(opp) == "Opportunity"

forecast_data_row(opp, probs) ==
    LET probability == StageProbability(probs, opp.stage)
        weighted_amount == QMul(float(opp.amount), probability)
    IN  ("Opportunity ID" :> opp.opportunity_id) @@
        ("Opportunity Name" :> opportunity_name(opp)) @@
        ("Owner" :> opp.owner) @@
        ("Stage" :> opp.stage) @@
        ("Amount" :> float(opp.amount)) @@
        ("Probability" :> format_percent(probability)) @@
        ("Weighted Amount" :> weighted_amount) @@
        ("Created Date" :> opp.created_date) @@
        ("Close Date" :> opp.close_date)

summary_row(metrics) ==
    ("Opportunity ID" :> "") @@
    ("Opportunity Name" :> "TOTAL FORECAST") @@
    ("Owner" :> "") @@
    ("Stage" :> "") @@
    ("Amount" :> metrics.total_pipeline) @@
    ("Probability" :> "") @@
    ("Weighted Amount" :> metrics.weighted_forecast) @@
    ("Created Date" :> "") @@
    ("Close Date" :> "")

\* the same with a row for every opportunity, whatever its status
export_forecast_to_csv_every_status(opps, probs, metrics) ==
    [outcome |-> "ok",
     forecast_data |->
        Append([i \in 1..Len(opps) |-> forecast_data_row(opps[i], probs)],
               summary_row(metrics))]

\* df.to_csv(index=False) writes forecast_data row by row, in this order
export_forecast_to_csv(opps, probs, metrics) ==
    LET open_opps == SelectSeq(opps, LAMBDA opp: opp.status = "Open")
    IN  [outcome |-> "ok",
         forecast_data |->
            Append([i \in 1..Len(open_opps) |-> forecast_data_row(open_opps[i], probs)],
                   summary_row(metrics))]

\* ----------------------------------------------- forecast.calculate_forecast
breakdown_default == [count |-> 0, total_amount |-> Zero, weighted_amount |-> Zero]

forecast_step(acc, opp, probs) ==
    IF opp.status = "Open"
    THEN LET stage == opp.stage
             amount == float(opp.amount)
             probability == StageProbability(probs, stage)
             weighted_amount == QMul(amount, probability)
             cur == Get(acc.stage_breakdown, stage, breakdown_default)
         IN  [total_forecast |-> QAdd(acc.total_forecast, weighted_amount),
              stage_breakdown |->
                 DictSet(acc.stage_breakdown, stage,
                         [count |-> cur.count + 1,
                          total_amount |-> QAdd(cur.total_amount, amount),
                          weighted_amount |-> QAdd(cur.weighted_amount, weighted_amount)])]
    ELSE acc

calculate_forecast(opps, probs) ==
    LET r == Fold(LAMBDA acc, opp: forecast_step(acc, opp, probs),
                  [total_forecast |-> Zero, stage_breakdown |-> <<>>], opps)
    IN  [outcome |-> "ok",
         total_forecast |-> r.total_forecast,
         stage_breakdown |-> r.stage_breakdown]

\* ---------------------------------------- forecast.calculate_rep_performance
rep_default ==
    [open_count |-> 0, open_pipeline |-> Zero, weighted_forecast |-> Zero,
     won_count |-> 0, lost_count |-> 0, closed_count |-> 0, win_rate |-> Zero,
     won_amount |-> Zero, avg_deal_size |-> Zero]

rep_collect(rep_stats, opp, probs) ==
    LET owner  == opp.owner
        amount == float(opp.amount)
        cur    == Get(rep_stats, owner, rep_default)
    IN  IF opp.status = "Open"
        THEN DictSet(rep_stats, owner,
                 [cur EXCEPT !.open_count = @ + 1,
                             !.open_pipeline = QAdd(@, amount),
                             !.weighted_forecast =
                                 QAdd(@, QMul(amount, StageProbability(probs, opp.stage)))])
        ELSE IF opp.status = "Won"
        THEN DictSet(rep_stats, owner,
                 [cur EXCEPT !.won_count = @ + 1,
                             !.closed_count = @ + 1,
                             !.won_amount = QAdd(@, amount)])
        ELSE IF opp.status = "Lost"
        THEN DictSet(rep_stats, owner,
                 [cur EXCEPT !.lost_count = @ + 1,
                             !.closed_count = @ + 1])
        ELSE rep_stats

rep_derive(stats) ==
    [stats EXCEPT
        !.win_rate = IF stats.closed_count > 0
                     THEN Q(stats.won_count, stats.closed_count) ELSE @,
        !.avg_deal_size = IF stats.won_count > 0
                          THEN QDiv(stats.won_amount, QI(stats.won_count)) ELSE @]

calculate_rep_performance(opps, probs) ==
    LET rep_stats == Fold(LAMBDA acc, opp: rep_collect(acc, opp, probs), <<>>, opps)
    IN  [outcome |-> "ok",
         reps |-> [owner \in DOMAIN rep_stats |-> rep_derive(rep_stats[owner])]]

\* ------------------------------------ forecast.main, rep performance report
\* sum(... for s in rep_performance.values())
RECURSIVE sum_values(_)
sum_values(f) ==
    IF DOMAIN f = {} THEN Zero
    ELSE LET k == CHOOSE x \in DOMAIN f : TRUE
         IN  QAdd(f[k], sum_values([x \in (DOMAIN f) \ {k} |-> f[x]]))

team_win_rate(reps) ==
    LET won    == sum_values([o \in DOMAIN reps |-> QI(reps[o].won_count)])
        closed == sum_values([o \in DOMAIN reps |-> QI(reps[o].closed_count)])
    IN  IF QLt(Zero, closed) THEN QDiv(won, closed) ELSE Zero

team_avg_deal(reps) ==
    LET amount == sum_values([o \in DOMAIN reps |-> reps[o].won_amount])
        won    == sum_values([o \in DOMAIN reps |-> QI(reps[o].won_count)])
    IN  IF QLt(Zero, won) THEN QDiv(amount, won) ELSE Zero

MinClosedForTier == 3

TopWinRateFactor == Q(11, 10)

TopDealFactor == Q(9, 10)

CoachingWinRateFactor == Q(8, 10)

CoachingDealFactor == Q(7, 10)

\* the top-performer test with "or" for "and"
IsTopPerformer_either(stats, team_rate, team_deal) ==
    \/ QLe(QMul(team_rate, TopWinRateFactor), stats.win_rate)
    \/ QLe(QMul(team_deal, TopDealFactor), stats.avg_deal_size)

IsTopPerformer(stats, team_rate, team_deal) ==
    /\ QLe(QMul(team_rate, TopWinRateFactor), stats.win_rate)
    /\ QLe(QMul(team_deal, TopDealFactor), stats.avg_deal_size)

NeedsCoaching(stats, team_rate, team_deal) ==
    \/ QLt(stats.win_rate, QMul(team_rate, CoachingWinRateFactor))
    \/ QLt(stats.avg_deal_size, QMul(team_deal, CoachingDealFactor))

\* the performance column of one rep (the labels without their pictographs)
performance_of(stats, team_rate, team_deal) ==
    IF stats.closed_count < MinClosedForTier THEN "Insufficient data"
    ELSE IF IsTopPerformer(stats, team_rate, team_deal) THEN "Top Performer"
    ELSE IF NeedsCoaching(stats, team_rate, team_deal) THEN "Needs Coaching"
    ELSE "On Track"

\* Coaching Insights: the reps of the two lists (the lists follow sorted_reps,
\* and the first three top performers are printed)
top_performers(reps) ==
    {owner \in DOMAIN reps :
        /\ reps[owner].closed_count >= MinClosedForTier
        /\ QLe(QMul(team_win_rate(reps), TopWinRateFactor), reps[owner].win_rate)}

needs_coaching(reps) ==
    {owner \in DOMAIN reps :
        /\ reps[owner].closed_count >= MinClosedForTier
        /\ NeedsCoaching(reps[owner], team_win_rate(reps), team_avg_deal(reps))}

\* the report's rows: one per rep of rep_performance, and the two lists
rep_report(reps) ==
    [outcome |-> "ok",
     team_win_rate |-> team_win_rate(reps),
     team_avg_deal |-> team_avg_deal(reps),
     tiers |-> [owner \in DOMAIN reps |->
                   performance_of(reps[owner], team_win_rate(reps), team_avg_deal(reps))],
     top_performers |-> top_performers(reps),
     needs_coaching |-> needs_coaching(reps)]

\* ------------------------------------ forecast.calculate_sales_cycle_analysis
cycle_step(acc, opp) ==
    IF opp.status = "Won"
    THEN LET cycle_days == CycleDays(opp)
             stage == GetLastStage(opp)
         IN  [won_cycles |-> Append(acc.won_cycles, cycle_days),
              stage_cycles |->
                 DictSet(acc.stage_cycles, stage,
                         Append(Get(acc.stage_cycles, stage, <<>>), cycle_days))]
    ELSE acc

calculate_sales_cycle_analysis(opps) ==
    LET r == Fold(cycle_step, [won_cycles |-> <<>>, stage_cycles |-> <<>>], opps)
        won_cycles == r.won_cycles
        avg_cycle == IF won_cycles # <<>> THEN mean(won_cycles) ELSE Zero
        median_cycle == IF won_cycles # <<>> THEN median(won_cycles) ELSE Zero
        stage_cycle_stats ==
            [stage \in DOMAIN r.stage_cycles |->
                [avg |-> mean(r.stage_cycles[stage]),
                 median |-> median(r.stage_cycles[stage]),
                 count |-> Len(r.stage_cycles[stage])]]
    IN  Return(<<avg_cycle, median_cycle>>,
               [outcome |-> "ok",
                avg_cycle |-> avg_cycle,
                median_cycle |-> median_cycle,
                stage_cycle_stats |-> stage_cycle_stats,
                won_cycles |-> won_cycles])

\* ------------------------------------ forecast.identify_at_risk_opportunities
\* at_risk.sort(key=days_over, reverse=True): stable, larger keys first
RECURSIVE InsertByDaysOver(_, _)
InsertByDaysOver(lst, x) ==
    IF lst = <<>> THEN <<x>>
    ELSE IF QLt(Head(lst).days_over, x.days_over) THEN <<x>> \o lst
    ELSE <<Head(lst)>> \o InsertByDaysOver(Tail(lst), x)

SortByDaysOverDesc(lst) == Fold(InsertByDaysOver, <<>>, lst)

AtRiskTest_or_equal(days_in_pipeline, avg_cycle) == QLe(avg_cycle, QI(days_in_pipeline))

AtRiskTest(days_in_pipeline, avg_cycle) == QLt(avg_cycle, QI(days_in_pipeline))

at_risk_step(at_risk, opp, avg_cycle, today) ==
    IF opp.status = "Open"
    THEN LET created == parse_date(opp.created_date)
             days_in_pipeline == DaysSince(today, created)
         IN  IF AtRiskTest(days_in_pipeline, avg_cycle)
             THEN Append(at_risk,
                         [id |-> opp.opportunity_id,
                          amount |-> float(opp.amount),
                          stage |-> opp.stage,
                          days_in_pipeline |-> days_in_pipeline,
                          days_over |-> QSub(QI(days_in_pipeline), avg_cycle),
                          owner |-> opp.owner])
             ELSE at_risk
    ELSE at_risk

identify_at_risk_opportunities(opps, avg_cycle, today) ==
    LET at_risk == Fold(LAMBDA acc, opp: at_risk_step(acc, opp, avg_cycle, today), <<>>, opps)
    IN  [outcome |-> "ok", at_risk |-> SortByDaysOverDesc(at_risk)]

\* ----------------------------------------- forecast.calculate_sales_velocity
calculate_sales_velocity(opps, avg_cycle) ==
    LET open_opps   == SelectSeq(opps, LAMBDA opp: opp.status = "Open")
        num_open    == Len(open_opps)
        closed_opps == SelectSeq(opps, LAMBDA opp: opp.status \in {"Won", "Lost"})
        won_opps    == SelectSeq(opps, LAMBDA opp: opp.status = "Won")
        overall_win_rate ==
            IF closed_opps # <<>> THEN Q(Len(won_opps), Len(closed_opps)) ELSE Zero
        won_amounts == [i \in 1..Len(won_opps) |-> float(won_opps[i].amount)]
        avg_deal_size == IF won_amounts # <<>> THEN meanQ(won_amounts) ELSE Zero
        sales_velocity ==
            IF QLt(Zero, avg_cycle)
            THEN QDiv(QMul(QMul(QI(num_open), overall_win_rate), avg_deal_size), avg_cycle)
            ELSE Zero
    IN  Return(<<avg_deal_size>>,
               [outcome |-> "ok",
                num_open |-> num_open,
                overall_win_rate |-> overall_win_rate,
                avg_deal_size |-> avg_deal_size,
                avg_cycle |-> avg_cycle,
                sales_velocity |-> sales_velocity,
                projections |-> [days \in {30, 60, 90} |-> QMul(sales_velocity, QI(days))]])

\* ------------------------------------ forecast.calculate_historical_win_rates
hist_default == [won |-> 0, lost |-> 0, total |-> 0]

hist_step(stage_stats, opp) ==
    IF opp.status \in {"Won", "Lost"}
    THEN LET stage == GetLastStage(opp)
             cur == Get(stage_stats, stage, hist_default)
         IN  DictSet(stage_stats, stage,
                 [total |-> cur.total + 1,
                  won  |-> IF opp.status = "Won" THEN cur.won + 1 ELSE cur.won,
                  lost |-> IF opp.status = "Won" THEN cur.lost ELSE cur.lost + 1])
    ELSE stage_stats

calculate_historical_win_rates(opps) ==
    LET stage_stats == Fold(hist_step, <<>>, opps)
        historical_rates ==
            [stage \in DOMAIN stage_stats |->
                IF stage_stats[stage].total > 0
                THEN Q(stage_stats[stage].won, stage_stats[stage].total)
                ELSE Zero]
    IN  [outcome |-> "ok",
         historical_rates |-> historical_rates,
         stage_stats |-> stage_stats]

\* --------------------------------------------------- statistics.quantiles
\* One data point: StatisticsError up to Python 3.12, the point repeated
\* from Python 3.13 on; single_point says which library is running.
SinglePointBehaviours == {"raise", "repeat"}

quantile_cut(data, ld, n, i) ==
    LET m  == ld + 1
        j0 == (i * m) \div n
        j  == IF j0 < 1 THEN 1 ELSE IF j0 > ld - 1 THEN ld - 1 ELSE j0
        delta == i * m - j * n
    IN  Q(data[j] * (n - delta) + data[j + 1] * delta, n)

\* whether quantiles(values) raises: fewer than two data points
quantiles_raises(values, single_point) ==
    Len(values) < 2 /\ ~(Len(values) = 1 /\ single_point = "repeat")

\* the n - 1 cut points, when quantiles does not raise
quantiles(values, n, single_point) ==
    LET data == sorted(values)
        ld == Len(data)
    IN  IF ld < 2
        THEN [i \in 1..(n - 1) |-> QI(data[1])]
        ELSE [i \in 1..(n - 1) |-> quantile_cut(data, ld, n, i)]

\* statistics.quantiles(won_cycles, n=4)[k - 1]
quartile(values, k, single_point) ==
    IF quantiles_raises(values, single_point)
    THEN Raise("StatisticsError")
    ELSE quantiles(values, 4, single_point)[k]

\* -------------------------------------- forecast.calculate_scenario_analysis
default_rates ==
    [s \in StageNames |->
        CASE s = "Discovery"   -> Q(10, 100)
          [] s = "Demo"        -> Q(30, 100)
          [] s = "Proposal"    -> Q(50, 100)
          [] s = "Negotiation" -> Q(70, 100)]

BestFactor == Q(130, 100)

WorstFactor == Q(70, 100)

DefaultCycle == 100

scenario_base_rate(stage, historical_rates, stage_stats) ==
    IF stage \in DOMAIN stage_stats /\ stage_stats[stage].total > 0
    THEN Get(historical_rates, stage, Zero)
    ELSE default_rates[stage]

scenario_rates(scenario_name, historical_rates, stage_stats) ==
    [stage \in StageNames |->
        LET r == scenario_base_rate(stage, historical_rates, stage_stats)
        IN  CASE scenario_name = "best"     -> QMin(One, QMul(r, BestFactor))
              [] scenario_name = "expected" -> r
              [] scenario_name = "worst"    -> QMul(r, WorstFactor)]

scenario_forecast(open_opps, rates) ==
    Fold(LAMBDA total_forecast, opp:
             QAdd(total_forecast, QMul(float(opp.amount), Get(rates, opp.stage, Zero))),
         Zero, open_opps)

calculate_scenario_analysis(opps, historical_rates, stage_stats, won_cycles, single_point) ==
    LET open_opps == SelectSeq(opps, LAMBDA opp: opp.status = "Open")
        best_cycle     == IF won_cycles # <<>> THEN quartile(won_cycles, 1, single_point)
                          ELSE QI(DefaultCycle)
        expected_cycle == IF won_cycles # <<>> THEN median(won_cycles) ELSE QI(DefaultCycle)
        worst_cycle    == IF won_cycles # <<>> THEN quartile(won_cycles, 3, single_point)
                          ELSE QI(DefaultCycle)
        cycle(name) == CASE name = "best" -> best_cycle
                         [] name = "worst" -> worst_cycle
                         [] OTHER -> expected_cycle
    IN  Return(<<best_cycle, expected_cycle, worst_cycle>>,
               [outcome |-> "ok",
                scenarios |->
                   [name \in {"best", "expected", "worst"} |->
                      LET rates == scenario_rates(name, historical_rates, stage_stats)
                      IN  [forecast |-> scenario_forecast(open_opps, rates),
                           cycle |-> cycle(name),
                           rates |-> rates]]])

\* ------------------------------------- forecast.main: the scenario report
\* x / y on numbers
truediv(x, y) == IF y.n = 0 THEN Raise("ZeroDivisionError") ELSE QDiv(x, y)

\* (diff / expected_forecast * 100) if expected_forecast > 0 else 0
pct_of_expected(diff, expected_forecast) ==
    IF QLt(Zero, expected_forecast)
    THEN QMul(QDiv(diff, expected_forecast), QI(100))
    ELSE Zero

\* forecast_range/expected_forecast of the Range Width line
range_width(forecast_range, expected_forecast) == truediv(forecast_range, expected_forecast)

\* the Forecast Comparison and the forecast range of the scenario report
scenario_report_of(scens) ==
    LET expected_forecast == scens["expected"].forecast
        best_forecast == scens["best"].forecast
        worst_forecast == scens["worst"].forecast
        best_pct == pct_of_expected(QSub(best_forecast, expected_forecast), expected_forecast)
        worst_pct == pct_of_expected(QSub(worst_forecast, expected_forecast), expected_forecast)
        forecast_range == QSub(best_forecast, worst_forecast)
        width == range_width(forecast_range, expected_forecast)
    IN  Return(<<width>>,
               [outcome |-> "ok",
                best_pct |-> best_pct,
                worst_pct |-> worst_pct,
                forecast_range |-> forecast_range,
                range_pct |-> QMul(width, QI(100))])

\* ------------------------- forecast.calculate_stage_progression_analysis
\* stage_to_index, 0-based as in the code; -1 for a name outside stage_order
stage_to_index(stage) ==
    IF stage \in StageNames
    THEN (CHOOSE i \in 1..Len(stage_order) : stage_order[i] = stage) - 1
    ELSE -1

progression_default ==
    [total_entered |-> 0, won_from_here |-> 0, lost_from_here |-> 0,
     advanced_to_next |-> 0, conversion_rate |-> Zero, win_rate |-> Zero,
     loss_rate |-> Zero, days_in_stage |-> <<>>, avg_days_in_stage |-> Zero,
     currently_in_stage |-> 0, stuck_count |-> 0]

\* the stages a deal whose stage has index stage_index is counted in:
\* for i in range(stage_index + 1): stage_order[i]
EnteredStages_final_only(stage_index) == {stage_order[stage_index + 1]}

EnteredStages(stage_index) == {stage_order[i + 1] : i \in 0..stage_index}

progression_step(stage_stats, opp, today) ==
    IF opp.status = "Won" \/ opp.status = "Lost"
    THEN LET final_stage == GetLastStage(opp)
         IN  IF final_stage \in StageNames
             THEN LET stage_index == stage_to_index(final_stage)
                      total_days == CycleDays(opp)
                      num_stages == stage_index + 1
                      est_days_per_stage == Q(total_days, num_stages)
                  IN  [stage \in StageNames |->
                         LET st == stage_stats[stage]
                         IN  [st EXCEPT
                                !.total_entered =
                                    IF stage \in EnteredStages(stage_index) THEN @ + 1 ELSE @,
                                !.won_from_here =
                                    IF stage = final_stage /\ opp.status = "Won" THEN @ + 1 ELSE @,
                                !.lost_from_here =
                                    IF stage = final_stage /\ opp.status # "Won" THEN @ + 1 ELSE @,
                                !.days_in_stage =
                                    IF stage \in EnteredStages(stage_index)
                                    THEN Append(@, est_days_per_stage) ELSE @]]
             ELSE stage_stats
    ELSE IF opp.status = "Open"
    THEN LET current_stage == opp.stage
         IN  IF current_stage \in StageNames
             THEN LET stage_index == stage_to_index(current_stage)
                      days_since_created == DaysSince(today, parse_date(opp.created_date))
                      num_stages_so_far == stage_index + 1
                      est_days_per_stage == Q(days_since_created, num_stages_so_far)
                  IN  [stage \in StageNames |->
                         LET st == stage_stats[stage]
                         IN  [st EXCEPT
                                !.total_entered =
                                    IF stage \in EnteredStages(stage_index) THEN @ + 1 ELSE @,
                                !.currently_in_stage =
                                    IF stage = current_stage THEN @ + 1 ELSE @,
                                !.days_in_stage =
                                    IF stage \in EnteredStages(stage_index)
                                    THEN Append(@, est_days_per_stage) ELSE @]]
             ELSE stage_stats
    ELSE stage_stats

StuckFactor == Q(15, 10)

progression_derive(stats) ==
    LET closed_from_stage == stats.won_from_here + stats.lost_from_here
        avg == IF stats.days_in_stage # <<>> THEN meanQ(stats.days_in_stage) ELSE Zero
        threshold == QMul(avg, StuckFactor)
    IN  [stats EXCEPT
            !.win_rate = IF stats.total_entered > 0
                         THEN Q(stats.won_from_here, stats.total_entered) ELSE @,
            !.loss_rate = IF stats.total_entered > 0
                          THEN Q(stats.lost_from_here, stats.total_entered) ELSE @,
            !.conversion_rate = IF stats.total_entered > 0 /\ closed_from_stage > 0
                                THEN Q(stats.won_from_here, closed_from_stage) ELSE @,
            !.avg_days_in_stage = avg,
            !.stuck_count =
                IF stats.days_in_stage # <<>>
                THEN Len(SelectSeq(stats.days_in_stage, LAMBDA days: QLt(threshold, days)))
                ELSE @]

\* stage_transitions, keyed by the 1-based position of the from-stage
\* (the code's key "<from>_to_<to>"); entries exist only for current_total > 0
\* dropped counted from the next stage's side
progression_transitions_dropped_reversed(stage_stats) ==
    LET has == {i \in 1..(Len(stage_order) - 1) :
                   stage_stats[stage_order[i]].total_entered > 0}
    IN  [i \in has |->
            LET current_total == stage_stats[stage_order[i]].total_entered
                next_total == stage_stats[stage_order[i + 1]].total_entered
                progression_rate == Q(next_total, current_total)
            IN  [from_stage |-> stage_order[i],
                 to_stage |-> stage_order[i + 1],
                 progression_rate |-> progression_rate,
                 drop_off_rate |-> QSub(One, progression_rate),
                 from_count |-> current_total,
                 to_count |-> next_total,
                 dropped |-> next_total - current_total]]

progression_transitions(stage_stats) ==
    LET has == {i \in 1..(Len(stage_order) - 1) :
                   stage_stats[stage_order[i]].total_entered > 0}
    IN  [i \in has |->
            LET current_total == stage_stats[stage_order[i]].total_entered
                next_total == stage_stats[stage_order[i + 1]].total_entered
                progression_rate == Q(next_total, current_total)
            IN  [from_stage |-> stage_order[i],
                 to_stage |-> stage_order[i + 1],
                 progression_rate |-> progression_rate,
                 drop_off_rate |-> QSub(One, progression_rate),
                 from_count |-> current_total,
                 to_count |-> next_total,
                 dropped |-> current_total - next_total]]

None == [none |-> TRUE]

\* for k in order: if value(k) > max: max = value(k); best = k   (max starts at 0)
\* the comparison with >= : the last of equal values wins
RECURSIVE ArgMaxAbove_or_equal(_, _, _, _)
ArgMaxAbove_or_equal(keys, value, best, max) ==
    IF keys = <<>> THEN best
    ELSE IF QLe(max, value[Head(keys)])
         THEN ArgMaxAbove_or_equal(Tail(keys), value, Head(keys), value[Head(keys)])
         ELSE ArgMaxAbove_or_equal(Tail(keys), value, best, max)

RECURSIVE ArgMaxAbove(_, _, _, _)
ArgMaxAbove(keys, value, best, max) ==
    IF keys = <<>> THEN best
    ELSE IF QLt(max, value[Head(keys)])
         THEN ArgMaxAbove(Tail(keys), value, Head(keys), value[Head(keys)])
         ELSE ArgMaxAbove(Tail(keys), value, best, max)

calculate_stage_progression_analysis(opps, today) ==
    LET collected == Fold(LAMBDA acc, opp: progression_step(acc, opp, today),
                          [stage \in StageNames |-> progression_default], opps)
        stage_stats == [stage \in StageNames |-> progression_derive(collected[stage])]
        stage_transitions == progression_transitions(stage_stats)
        transition_keys == SelectSeq(<<1, 2, 3>>, LAMBDA i: i \in DOMAIN stage_transitions)
        bottleneck_key ==
            ArgMaxAbove(transition_keys,
                        [i \in DOMAIN stage_transitions |-> stage_transitions[i].drop_off_rate],
                        0, Zero)
        slowest ==
            ArgMaxAbove(stage_order,
                        [stage \in StageNames |-> stage_stats[stage].avg_days_in_stage],
                        "None", Zero)
        stickiest ==
            ArgMaxAbove(stage_order,
                        [stage \in StageNames |-> QI(stage_stats[stage].stuck_count)],
                        "None", Zero)
    IN  [outcome |-> "ok",
         stage_stats |-> stage_stats,
         stage_transitions |-> stage_transitions,
         biggest_bottleneck |->
             IF bottleneck_key = 0 THEN None ELSE stage_transitions[bottleneck_key],
         slowest_stage |-> slowest,
         stickiest_stage |-> stickiest]

\* ---------------------------------------- forecast.calculate_cohort_analysis
\* sorted(d.keys())
RECURSIVE SortedKeys(_)
SortedKeys(S) ==
    IF S = {} THEN <<>>
    ELSE LET lo == CHOOSE x \in S : \A y \in S : x <= y
         IN  <<lo>> \o SortedKeys(S \ {lo})

\* lst[-3:]
LastThree(lst) == SubSeq(lst, IF Len(lst) > 3 THEN Len(lst) - 2 ELSE 1, Len(lst))

cohort_default ==
    [total |-> 0, won |-> 0, lost |-> 0, open |-> 0, conversion_rate |-> Zero,
     win_rate |-> Zero, avg_days_to_close |-> Zero, closed_days |-> <<>>]

\* total counted only where the status is recognised
cohort_step_total_in_branches(cohorts, opp) ==
    LET cohort_key == MonthKey(opp.created_date)
        cur == Get(cohorts, cohort_key, cohort_default)
    IN  IF opp.status = "Won"
        THEN DictSet(cohorts, cohort_key,
                 [cur EXCEPT !.total = @ + 1, !.won = @ + 1,
                             !.closed_days = Append(@, CycleDays(opp))])
        ELSE IF opp.status = "Lost"
        THEN DictSet(cohorts, cohort_key,
                 [cur EXCEPT !.total = @ + 1, !.lost = @ + 1,
                             !.closed_days = Append(@, CycleDays(opp))])
        ELSE IF opp.status = "Open"
        THEN DictSet(cohorts, cohort_key, [cur EXCEPT !.total = @ + 1, !.open = @ + 1])
        ELSE cohorts

cohort_step(cohorts, opp) ==
    LET cohort_key == MonthKey(opp.created_date)
        cur == Get(cohorts, cohort_key, cohort_default)
        counted == [cur EXCEPT !.total = @ + 1]
    IN  IF opp.status = "Won"
        THEN DictSet(cohorts, cohort_key,
                 [counted EXCEPT !.won = @ + 1,
                                 !.closed_days = Append(@, CycleDays(opp))])
        ELSE IF opp.status = "Lost"
        THEN DictSet(cohorts, cohort_key,
                 [counted EXCEPT !.lost = @ + 1,
                                 !.closed_days = Append(@, CycleDays(opp))])
        ELSE DictSet(cohorts, cohort_key, [counted EXCEPT !.open = @ + 1])

cohort_derive(data) ==
    LET closed == data.won + data.lost
    IN  [data EXCEPT
            !.conversion_rate = IF data.total > 0 THEN Q(closed, data.total) ELSE @,
            !.win_rate = IF closed > 0 THEN Q(data.won, closed) ELSE @,
            !.avg_days_to_close = IF data.closed_days # <<>> THEN mean(data.closed_days) ELSE @]

CohortThreshold == Q(1, 10)

\* the trend of a list of rates: last against first, against a threshold
TrendOf(rates, threshold) ==
    IF Len(rates) >= 2
    THEN LET change == QSub(rates[Len(rates)], rates[1])
         IN  IF QLt(threshold, change) THEN "improving"
             ELSE IF QLt(change, QSub(Zero, threshold)) THEN "declining"
             ELSE "stable"
    ELSE "stable"

calculate_cohort_analysis(opps) ==
    LET collected == Fold(cohort_step, <<>>, opps)
        cohorts == [k \in DOMAIN collected |-> cohort_derive(collected[k])]
        sorted_cohorts == SortedKeys(DOMAIN cohorts)
        recent_cohorts == LastThree(sorted_cohorts)
        win_rates ==
            LET pos == SelectSeq(recent_cohorts, LAMBDA c: QLt(Zero, cohorts[c].win_rate))
            IN  [i \in 1..Len(pos) |-> cohorts[pos[i]].win_rate]
        cohort_trend ==
            IF Len(sorted_cohorts) >= 3 THEN TrendOf(win_rates, CohortThreshold) ELSE "stable"
    IN  [outcome |-> "ok",
         cohorts |-> cohorts,
         sorted_cohorts |-> sorted_cohorts,
         cohort_trend |-> cohort_trend]

\* ----------------------------------------- forecast.calculate_trend_analysis
monthly_default ==
    [revenue |-> Zero, won_count |-> 0, lost_count |-> 0, closed_count |-> 0, win_rate |-> Zero]

trend_step(acc, opp) ==
    LET amount == float(opp.amount)
    IN  IF opp.status \in {"Won", "Lost"}
        THEN LET month_key == MonthKey(opp.close_date)
                 cur == Get(acc.monthly_data, month_key, monthly_default)
             IN  [acc EXCEPT !.monthly_data =
                    DictSet(@, month_key,
                        IF opp.status = "Won"
                        THEN [cur EXCEPT !.closed_count = @ + 1,
                                         !.revenue = QAdd(@, amount),
                                         !.won_count = @ + 1]
                        ELSE [cur EXCEPT !.closed_count = @ + 1,
                                         !.lost_count = @ + 1])]
        ELSE IF opp.status = "Open"
        THEN LET month_key == MonthKey(opp.created_date)
             IN  [acc EXCEPT !.monthly_pipeline =
                    DictSet(@, month_key, QAdd(Get(@, month_key, Zero), amount))]
        ELSE acc

monthly_derive(data) ==
    [data EXCEPT !.win_rate = IF data.closed_count > 0
                              THEN Q(data.won_count, data.closed_count) ELSE @]

RevenueThreshold == Q(1, 10)

WinRateThreshold == Q(5, 100)

monthly_quota == 2000000

\* the last month compared with the month before it
revenue_trend_of_previous(revenues) ==
    IF Len(revenues) >= 2
    THEN LET revenue_change ==
                 IF QLt(Zero, revenues[Len(revenues) - 1])
                 THEN QDiv(QSub(revenues[Len(revenues)], revenues[Len(revenues) - 1]),
                           revenues[Len(revenues) - 1])
                 ELSE Zero
         IN  IF QLt(RevenueThreshold, revenue_change) THEN "improving"
             ELSE IF QLt(revenue_change, QSub(Zero, RevenueThreshold)) THEN "declining"
             ELSE "stable"
    ELSE "stable"

revenue_trend_of(revenues) ==
    IF Len(revenues) >= 2
    THEN LET revenue_change ==
                 IF QLt(Zero, revenues[1])
                 THEN QDiv(QSub(revenues[Len(revenues)], revenues[1]), revenues[1])
                 ELSE Zero
         IN  IF QLt(RevenueThreshold, revenue_change) THEN "improving"
             ELSE IF QLt(revenue_change, QSub(Zero, RevenueThreshold)) THEN "declining"
             ELSE "stable"
    ELSE "stable"

calculate_trend_analysis(opps) ==
    LET collected == Fold(trend_step, [monthly_data |-> <<>>, monthly_pipeline |-> <<>>], opps)
        monthly_data ==
            [m \in DOMAIN collected.monthly_data |-> monthly_derive(collected.monthly_data[m])]
        sorted_months == SortedKeys(DOMAIN monthly_data)
        recent_months == IF Len(sorted_months) >= 3 THEN LastThree(sorted_months)
                         ELSE sorted_months
        revenues == [i \in 1..Len(recent_months) |-> monthly_data[recent_months[i]].revenue]
        win_rates ==
            LET pos == SelectSeq(recent_months, LAMBDA m: QLt(Zero, monthly_data[m].win_rate))
            IN  [i \in 1..Len(pos) |-> monthly_data[pos[i]].win_rate]
        revenue_trend == IF Len(recent_months) >= 2 THEN revenue_trend_of(revenues)
                         ELSE "stable"
        win_rate_trend == IF Len(recent_months) >= 2 THEN TrendOf(win_rates, WinRateThreshold)
                          ELSE "stable"
        avg_monthly_revenue == IF Len(recent_months) >= 3 THEN meanQ(revenues) ELSE Zero
        avg_win_rate == IF Len(recent_months) >= 3 THEN meanQ(win_rates) ELSE Zero
        next_quarter_projection ==
            IF Len(recent_months) >= 3 THEN QMul(avg_monthly_revenue, QI(3)) ELSE Zero
        quarterly_quota == monthly_quota * 3
        open_opps == SelectSeq(opps, LAMBDA opp: opp.status = "Open")
        current_pipeline == SumQ([i \in 1..Len(open_opps) |-> float(open_opps[i].amount)])
        pipeline_coverage ==
            IF quarterly_quota > 0 THEN QDiv(current_pipeline, QI(quarterly_quota)) ELSE Zero
    IN  Return(<<avg_monthly_revenue, avg_win_rate>>,
               [outcome |-> "ok",
                monthly_data |-> monthly_data,
                sorted_months |-> sorted_months,
                revenue_trend |-> revenue_trend,
                win_rate_trend |-> win_rate_trend,
                avg_monthly_revenue |-> avg_monthly_revenue,
                avg_win_rate |-> avg_win_rate,
                next_quarter_projection |-> next_quarter_projection,
                current_pipeline |-> current_pipeline,
                pipeline_coverage |-> pipeline_coverage,
                monthly_quota |-> monthly_quota,
                quarterly_quota |-> quarterly_quota])

\* =================================================================== state
VARIABLES
    opportunities,        \* the rows read from opportunities.csv
    stage_probabilities,  \* the configured stage -> probability map
    clock,                \* datetime.now(), hours since 2024-01-01 00:00
    pc,                   \* the analyzer calls still to be made, in order
    metrics,              \* dashboard calculate_metrics(...)
    forecast,             \* calculate_forecast(...)
    rep_performance,      \* calculate_rep_performance(...)
    historical,           \* calculate_historical_win_rates(...)
    sales_cycle,          \* calculate_sales_cycle_analysis(...)
    at_risk_opps,         \* identify_at_risk_opportunities(...)
    velocity_metrics,     \* calculate_sales_velocity(...)
    scenarios,            \* calculate_scenario_analysis(...)
    trend_analysis,       \* calculate_trend_analysis(...)
    cohort_analysis,      \* calculate_cohort_analysis(...)
    stage_progression,    \* calculate_stage_progression_analysis(...)
    performance,          \* main: the performance column of the rep report
    csv_file,             \* the data rows of opportunities.csv, in file order
    load,                 \* read_opportunities(filename): how the call ended
    forecast_csv,         \* dashboard export_forecast_to_csv(...)
    scenario_report       \* main: the forecast comparison of the scenario report

inputs == <<opportunities, stage_probabilities, clock, csv_file, load>>

vars == <<opportunities, stage_probabilities, clock, pc, metrics, forecast,
          rep_performance, historical, sales_cycle, at_risk_opps, velocity_metrics,
          scenarios, trend_analysis, cohort_analysis, stage_progression,
          performance, csv_file, load, forecast_csv, scenario_report>>

\* ------------------------------------------------------------- input rows
\* csv.DictReader row; a file without a last_stage column gives rows without the key
Row(amount, stage, status, owner, created_date, close_date, last_stage) ==
    [amount |-> amount, stage |-> stage, status |-> status, owner |-> owner,
     created_date |-> created_date, close_date |-> close_date, last_stage |-> last_stage]

WithoutLastStage(row) == [k \in (DOMAIN row) \ {"last_stage"} |-> row[k]]

\* read_opportunities: the rows in file order; opportunity_id is the row number
read_opportunities(rows) ==
    [i \in 1..Len(rows) |->
        [k \in (DOMAIN rows[i]) \cup {"opportunity_id"} |->
            IF k = "opportunity_id" THEN i ELSE rows[i][k]]]

FilesUpTo(RowSet, max) ==
    {read_opportunities(rows) : rows \in UNION {[1..n -> RowSet] : n \in 0..max}}

Files(RowSet) ==
    {read_opportunities(rows) : rows \in UNION {[1..n -> RowSet] : n \in 0..MaxOpps}}

NoDate == <<>>

Jan01 == <<2024, 1, 1>>

Jan31 == <<2024, 1, 31>>

Mar01 == <<2024, 3, 1>>

\* rows that differ in status, stage, amount and owner
MetricsRows ==
    { Row(100000, "Discovery",   "Open", "Ana", Jan01, NoDate, ""),
      Row(50000,  "Demo",        "Open", "Ana", Jan01, NoDate, ""),
      Row(50000,  "Demo",        "Open", "Bo",  Jan01, NoDate, ""),
      Row(50000,  "Negotiation", "Open", "Bo",  Jan01, NoDate, ""),
      Row(100000, "Qualified",   "Open", "Bo",  Jan01, NoDate, ""),
      Row(100000, "Negotiation", "Won",  "Ana", Jan01, Jan31, "Negotiation"),
      Row(50000,  "Demo",        "Won",  "Bo",  Jan01, Mar01, "Demo"),
      Row(100000, "Demo",        "Lost", "Ana", Jan01, Jan31, "Demo"),
      Row(50000,  "Proposal",    "Lost", "Bo",  Jan01, Mar01, "Proposal"),
      Row(50000,  "Demo",        "Pending", "Cy", Jan01, NoDate, "") }

Feb15 == <<2024, 2, 15>>

Mar16 == <<2024, 3, 16>>

Apr10 == <<2024, 4, 10>>

\* rows that differ in status and in created / close dates
DateRows ==
    { Row(100000, "Discovery",   "Open", "Ana", Jan01, NoDate, ""),
      Row(40000,  "Demo",        "Open", "Bo",  Jan31, NoDate, ""),
      Row(50000,  "Demo",        "Open", "Ana", Feb15, NoDate, ""),
      Row(100000, "Proposal",    "Open", "Bo",  Mar01, NoDate, ""),
      Row(50000,  "Discovery",   "Open", "Bo",  Apr10, NoDate, ""),
      Row(100000, "Negotiation", "Won",  "Ana", Jan01, Jan31, "Negotiation"),
      Row(50000,  "Negotiation", "Won",  "Bo",  Jan01, Mar01, "Negotiation"),
      Row(100000, "Proposal",    "Won",  "Ana", Feb15, Mar01, "Proposal"),
      Row(50000,  "Demo",        "Won",  "Bo",  Mar01, Mar01, "Demo"),
      Row(100000, "Demo",        "Lost", "Ana", Jan01, Jan31, "Demo"),
      Row(50000,  "Proposal",    "Lost", "Bo",  Feb15, Apr10, "Proposal"),
      Row(50000,  "Demo",        "Pending", "Cy", Jan31, NoDate, "") }

\* rows that differ in status, stage and last_stage (a closed row with an
\* empty last_stage cell, and one whose last_stage differs from its stage)
StageRows ==
    { Row(100000, "Discovery",   "Open", "Ana", Jan01, NoDate, ""),
      Row(50000,  "Demo",        "Open", "Bo",  Jan31, NoDate, ""),
      Row(100000, "Proposal",    "Open", "Ana", Feb15, NoDate, ""),
      Row(50000,  "Negotiation", "Open", "Bo",  Jan01, NoDate, ""),
      Row(100000, "Qualified",   "Open", "Bo",  Jan01, NoDate, ""),
      Row(100000, "Negotiation", "Won",  "Ana", Jan01, Jan31, "Negotiation"),
      Row(50000,  "Demo",        "Won",  "Bo",  Jan01, Mar01, "Proposal"),
      Row(100000, "Demo",        "Won",  "Ana", Feb15, Mar01, ""),
      Row(50000,  "Discovery",   "Won",  "Bo",  Jan01, Apr10, "Discovery"),
      Row(100000, "Demo",        "Lost", "Ana", Jan01, Jan31, "Demo"),
      Row(50000,  "Proposal",    "Lost", "Bo",  Feb15, Apr10, ""),
      Row(50000,  "Negotiation", "Lost", "Bo",  Jan01, Mar01, "Qualified"),
      Row(50000,  "Discovery",   "Lost", "Ana", Jan31, Mar01, "Discovery") }

\* rows of two reps that differ in outcome and deal size, and an Open row
RepRows ==
    { Row(100000, "Negotiation", "Won",  "Ana", Jan01, Jan31, "Negotiation"),
      Row(40000,  "Demo",        "Won",  "Ana", Jan01, Jan31, "Demo"),
      Row(50000,  "Demo",        "Lost", "Ana", Jan01, Jan31, "Demo"),
      Row(100000, "Proposal",    "Won",  "Bo",  Jan01, Mar01, "Proposal"),
      Row(40000,  "Demo",        "Won",  "Bo",  Jan01, Mar01, "Demo"),
      Row(50000,  "Proposal",    "Lost", "Bo",  Jan01, Mar01, "Proposal"),
      Row(50000,  "Demo",        "Open", "Bo",  Jan01, NoDate, "") }

\* a rep of small deals and a rep of large ones, each winning and losing
CoachingRows ==
    { Row(40000,  "Demo",     "Won",  "Ana", Jan01, Jan31, "Demo"),
      Row(50000,  "Demo",     "Lost", "Ana", Jan01, Jan31, "Demo"),
      Row(100000, "Proposal", "Won",  "Bo",  Jan01, Mar01, "Proposal"),
      Row(50000,  "Proposal", "Lost", "Bo",  Jan01, Mar01, "Proposal") }

\* closed rows that differ in outcome, amount and close month, and an Open row
TrendRows ==
    { Row(100000, "Negotiation", "Won",  "Ana", Jan01, Jan31, "Negotiation"),
      Row(50000,  "Demo",        "Won",  "Bo",  Jan01, Feb15, "Demo"),
      Row(40000,  "Proposal",    "Won",  "Ana", Jan01, Mar01, "Proposal"),
      Row(100000, "Demo",        "Won",  "Bo",  Jan01, Apr10, "Demo"),
      Row(100000, "Demo",        "Lost", "Ana", Jan01, Jan31, "Demo"),
      Row(50000,  "Proposal",    "Lost", "Bo",  Jan01, Feb15, "Proposal"),
      Row(50000,  "Demo",        "Lost", "Ana", Jan01, Mar01, "Demo"),
      Row(50000,  "Proposal",    "Lost", "Bo",  Jan01, Apr10, "Proposal"),
      Row(100000, "Discovery",   "Open", "Ana", Jan01, NoDate, "") }

\* rows with a stage outside the four (Open, and closed with that last_stage)
\* next to rows with a known stage
UnknownStageRows ==
    { Row(100000, "Qualified",   "Open", "Ana", Jan01, NoDate, ""),
      Row(50000,  "Demo",        "Open", "Bo",  Jan31, NoDate, ""),
      Row(100000, "Qualified",   "Won",  "Ana", Jan01, Jan31, "Qualified"),
      Row(50000,  "Demo",        "Lost", "Bo",  Jan01, Mar01, "Qualified"),
      Row(50000,  "Proposal",    "Won",  "Bo",  Jan01, Mar01, "Proposal"),
      Row(100000, "Demo",        "Lost", "Ana", Jan01, Jan31, "Demo") }

\* the text 2024-02-30: of the form YYYY-MM-DD, and no calendar date
Feb30 == <<2024, 2, 30>>

\* rows as a file can hold them: sound ones, and one whose created_date is
\* no calendar date
LoadRows ==
    { Row(100000, "Demo",        "Open", "Ana", Jan01, NoDate, ""),
      Row(50000,  "Negotiation", "Open", "Bo",  Feb30, NoDate, ""),
      Row(50000,  "Proposal",    "Won",  "Bo",  Jan01, Jan31, "Proposal"),
      Row(100000, "Prospect",    "Lost", "Ana", Jan01, Jan31, "Prospect") }

\* a file without an owner column
WithoutOwnerColumn(RowSet) == {[k \in (DOMAIN row) \ {"owner"} |-> row[k]] : row \in RowSet}

\* a file without a last_stage column
WithoutLastStageColumn(RowSet) == {WithoutLastStage(row) : row \in RowSet}

\* a few rows of every kind, for the whole sequence of calls
MainRows ==
    { Row(100000, "Discovery",   "Open", "Ana", Jan01, NoDate, ""),
      Row(50000,  "Demo",        "Open", "Bo",  Feb15, NoDate, ""),
      Row(100000, "Negotiation", "Won",  "Ana", Jan01, Jan31, "Negotiation"),
      Row(50000,  "Demo",        "Won",  "Bo",  Feb15, Mar01, "Demo"),
      Row(100000, "Demo",        "Lost", "Ana", Jan01, Jan31, "Demo"),
      Row(50000,  "Proposal",    "Lost", "Bo",  Feb15, Apr10, "") }

\* --discovery 10 --demo 30: a map that leaves two stages out
ExampleProbabilities == [s \in {"Discovery", "Demo"} |-> DEFAULT_PROBABILITIES[s]]

\* --discovery 150 --negotiation 100: the options are not range-checked
OverProbabilities ==
    [DEFAULT_PROBABILITIES EXCEPT !["Discovery"] = Q(150, 100), !["Negotiation"] = Q(100, 100)]

ProbabilityMaps == {DEFAULT_PROBABILITIES, ExampleProbabilities, OverProbabilities}

\* 2024-03-01 10:00
ClockMar01 == 24 * parse_date(Mar01) + 10

\* 2024-03-16 18:00
ClockMar16 == 24 * parse_date(Mar16) + 18

Clocks == {ClockMar01, ClockMar16}

\* the rows of a loaded file as the file holds them
RowsOf(opps) ==
    [i \in 1..Len(opps) |-> [k \in (DOMAIN opps[i]) \ {"opportunity_id"} |-> opps[i][k]]]

\* main after read_opportunities(args.csv_file) has returned
InitWith(FileSet, Maps, ClockSet, calls) ==
    /\ opportunities \in FileSet
    /\ csv_file = RowsOf(opportunities)
    /\ load = [outcome |-> "ok"]
    /\ stage_probabilities \in Maps
    /\ clock \in ClockSet
    /\ pc = calls
    /\ metrics = NotRun
    /\ forecast = NotRun
    /\ rep_performance = NotRun
    /\ historical = NotRun
    /\ sales_cycle = NotRun
    /\ at_risk_opps = NotRun
    /\ velocity_metrics = NotRun
    /\ scenarios = NotRun
    /\ trend_analysis = NotRun
    /\ cohort_analysis = NotRun
    /\ stage_progression = NotRun
    /\ performance = NotRun
    /\ forecast_csv = NotRun
    /\ scenario_report = NotRun

\* ---------------------------------------------------------------- actions
Next_call(name) == pc # <<>> /\ Head(pc) = name /\ pc' = Tail(pc)

Call_calculate_metrics ==
    /\ Next_call("calculate_metrics")
    /\ metrics' = calculate_metrics(opportunities, stage_probabilities)
    /\ UNCHANGED <<inputs, forecast, rep_performance, historical, sales_cycle,
                   at_risk_opps, velocity_metrics, scenarios, trend_analysis,
                   cohort_analysis, stage_progression, performance,
                   forecast_csv, scenario_report>>

Call_calculate_forecast ==
    /\ Next_call("calculate_forecast")
    /\ forecast' = calculate_forecast(opportunities, stage_probabilities)
    /\ UNCHANGED <<inputs, metrics, rep_performance, historical, sales_cycle,
                   at_risk_opps, velocity_metrics, scenarios, trend_analysis,
                   cohort_analysis, stage_progression, performance,
                   forecast_csv, scenario_report>>

\* main: perf_probabilities = historical_rates if historical_rates else stage_probabilities
perf_probabilities ==
    IF historical.outcome = "ok" /\ DOMAIN historical.historical_rates # {}
    THEN historical.historical_rates
    ELSE stage_probabilities

Call_calculate_rep_performance ==
    /\ Next_call("calculate_rep_performance")
    /\ rep_performance' = calculate_rep_performance(opportunities, perf_probabilities)
    /\ UNCHANGED <<inputs, metrics, forecast, historical, sales_cycle,
                   at_risk_opps, velocity_metrics, scenarios, trend_analysis,
                   cohort_analysis, stage_progression, performance,
                   forecast_csv, scenario_report>>

\* main: the rep performance section of the report
Report_rep_performance ==
    /\ Next_call("report_rep_performance")
    /\ rep_performance.outcome = "ok"
    /\ performance' = rep_report(rep_performance.reps)
    /\ UNCHANGED <<inputs, metrics, forecast, rep_performance, historical, sales_cycle,
                   at_risk_opps, velocity_metrics, scenarios, trend_analysis,
                   cohort_analysis, stage_progression, forecast_csv,
                   scenario_report>>

\* ---- rep performance and its report on rows of two reps
RepCalls == <<"calculate_rep_performance", "report_rep_performance">>

InitReps == InitWith(FilesUpTo(RepRows, MaxRepOpps), {DEFAULT_PROBABILITIES}, {ClockMar01}, RepCalls)

NextReps ==
    \/ Call_calculate_rep_performance
    \/ Report_rep_performance

SpecReps == InitReps /\ [][NextReps]_vars

MetricsCalls == <<"calculate_metrics", "calculate_forecast", "calculate_rep_performance">>

InitMetrics == InitWith(Files(MetricsRows), ProbabilityMaps, {ClockMar01}, MetricsCalls)

NextMetrics ==
    \/ Call_calculate_metrics
    \/ Call_calculate_forecast
    \/ Call_calculate_rep_performance

SpecMetrics == InitMetrics /\ [][NextMetrics]_vars

\* dashboard: metrics = calculate_metrics(filtered_opps, stage_probabilities), then
\* export_forecast_to_csv(filtered_opps, stage_probabilities, metrics)
Call_export_forecast_to_csv ==
    /\ Next_call("export_forecast_to_csv")
    /\ metrics.outcome = "ok"
    /\ forecast_csv' = export_forecast_to_csv(opportunities, stage_probabilities, metrics)
    /\ UNCHANGED <<inputs, metrics, forecast, rep_performance, historical, sales_cycle,
                   at_risk_opps, velocity_metrics, scenarios, trend_analysis,
                   cohort_analysis, stage_progression, performance, scenario_report>>

ExportCalls == <<"calculate_metrics", "export_forecast_to_csv">>

InitExport == InitWith(Files(MetricsRows), ProbabilityMaps, {ClockMar01}, ExportCalls)

NextExport ==
    \/ Call_calculate_metrics
    \/ Call_export_forecast_to_csv

SpecExport == InitExport /\ [][NextExport]_vars

Call_calculate_historical_win_rates ==
    /\ Next_call("calculate_historical_win_rates")
    /\ historical' = calculate_historical_win_rates(opportunities)
    /\ UNCHANGED <<inputs, metrics, forecast, rep_performance, sales_cycle,
                   at_risk_opps, velocity_metrics, scenarios, trend_analysis,
                   cohort_analysis, stage_progression, performance,
                   forecast_csv, scenario_report>>

Call_calculate_sales_cycle_analysis ==
    /\ Next_call("calculate_sales_cycle_analysis")
    /\ sales_cycle' = calculate_sales_cycle_analysis(opportunities)
    /\ UNCHANGED <<inputs, metrics, forecast, rep_performance, historical,
                   at_risk_opps, velocity_metrics, scenarios, trend_analysis,
                   cohort_analysis, stage_progression, performance,
                   forecast_csv, scenario_report>>

\* main: identify_at_risk_opportunities(opportunities, avg_cycle); the
\* function reads the clock itself
Call_identify_at_risk_opportunities ==
    /\ Next_call("identify_at_risk_opportunities")
    /\ sales_cycle.outcome = "ok"
    /\ at_risk_opps' =
           identify_at_risk_opportunities(opportunities, sales_cycle.avg_cycle, clock)
    /\ UNCHANGED <<inputs, metrics, forecast, rep_performance, historical,
                   sales_cycle, velocity_metrics, scenarios, trend_analysis,
                   cohort_analysis, stage_progression, performance,
                   forecast_csv, scenario_report>>

Call_calculate_sales_velocity ==
    /\ Next_call("calculate_sales_velocity")
    /\ sales_cycle.outcome = "ok"
    /\ velocity_metrics' = calculate_sales_velocity(opportunities, sales_cycle.avg_cycle)
    /\ UNCHANGED <<inputs, metrics, forecast, rep_performance, historical,
                   sales_cycle, at_risk_opps, scenarios, trend_analysis,
                   cohort_analysis, stage_progression, performance,
                   forecast_csv, scenario_report>>

Call_calculate_scenario_analysis ==
    /\ Next_call("calculate_scenario_analysis")
    /\ historical.outcome = "ok"
    /\ sales_cycle.outcome = "ok"
    /\ \E single_point \in SinglePointBehaviours :
          scenarios' = calculate_scenario_analysis(opportunities,
                           historical.historical_rates, historical.stage_stats,
                           sales_cycle.won_cycles, single_point)
    /\ UNCHANGED <<inputs, metrics, forecast, rep_performance, historical,
                   sales_cycle, at_risk_opps, velocity_metrics, trend_analysis,
                   cohort_analysis, stage_progression, performance,
                   forecast_csv, scenario_report>>

\* main prints the scenario report from the scenarios it computed
Report_scenarios ==
    /\ Next_call("report_scenarios")
    /\ scenarios.outcome = "ok"
    /\ scenario_report' = scenario_report_of(scenarios.scenarios)
    /\ UNCHANGED <<inputs, metrics, forecast, rep_performance, historical,
                   sales_cycle, at_risk_opps, velocity_metrics, scenarios, trend_analysis,
                   cohort_analysis, stage_progression, performance, forecast_csv>>

Call_calculate_trend_analysis ==
    /\ Next_call("calculate_trend_analysis")
    /\ trend_analysis' = calculate_trend_analysis(opportunities)
    /\ UNCHANGED <<inputs, metrics, forecast, rep_performance, historical,
                   sales_cycle, at_risk_opps, velocity_metrics, scenarios,
                   cohort_analysis, stage_progression, performance,
                   forecast_csv, scenario_report>>

Call_calculate_cohort_analysis ==
    /\ Next_call("calculate_cohort_analysis")
    /\ cohort_analysis' = calculate_cohort_analysis(opportunities)
    /\ UNCHANGED <<inputs, metrics, forecast, rep_performance, historical,
                   sales_cycle, at_risk_opps, velocity_metrics, scenarios,
                   trend_analysis, stage_progression, performance,
                   forecast_csv, scenario_report>>

\* the function reads the clock itself
Call_calculate_stage_progression_analysis ==
    /\ Next_call("calculate_stage_progression_analysis")
    /\ stage_progression' = calculate_stage_progression_analysis(opportunities, clock)
    /\ UNCHANGED <<inputs, metrics, forecast, rep_performance, historical,
                   sales_cycle, at_risk_opps, velocity_metrics, scenarios,
                   trend_analysis, cohort_analysis, performance,
                   forecast_csv, scenario_report>>

\* ---- the date-driven analyzers on rows that differ in their dates
DateCalls == <<"calculate_sales_cycle_analysis", "identify_at_risk_opportunities",
               "calculate_cohort_analysis", "calculate_trend_analysis">>

InitDates == InitWith(Files(DateRows), {DEFAULT_PROBABILITIES}, Clocks, DateCalls)

NextDates ==
    \/ Call_calculate_sales_cycle_analysis
    \/ Call_identify_at_risk_opportunities
    \/ Call_calculate_cohort_analysis
    \/ Call_calculate_trend_analysis

SpecDates == InitDates /\ [][NextDates]_vars

\* main with --use-historical: for stage in stage_probabilities.keys():
\*     if stage in historical_rates: stage_probabilities[stage] = historical_rates[stage]
\* (an assignment into the dict that parse_arguments returned)
Override_with_historical ==
    /\ Next_call("use_historical")
    /\ historical.outcome = "ok"
    /\ stage_probabilities' =
           [stage \in DOMAIN stage_probabilities |->
               IF stage \in DOMAIN historical.historical_rates
               THEN historical.historical_rates[stage]
               ELSE stage_probabilities[stage]]
    /\ UNCHANGED <<opportunities, clock, csv_file, load, metrics, forecast, rep_performance,
                   historical, sales_cycle, at_risk_opps, velocity_metrics, scenarios,
                   trend_analysis, cohort_analysis, stage_progression, performance,
                   forecast_csv, scenario_report>>

\* ---- a run of main in historical-rate mode: the calls that take or make a
\* probability map
HistoricalCalls == <<"calculate_historical_win_rates", "calculate_rep_performance",
                     "use_historical", "calculate_forecast">>

InitHistorical == InitWith(Files(MainRows), ProbabilityMaps, {ClockMar01}, HistoricalCalls)

NextHistorical ==
    \/ Call_calculate_historical_win_rates
    \/ Call_calculate_rep_performance
    \/ Override_with_historical
    \/ Call_calculate_forecast

SpecHistorical == InitHistorical /\ [][NextHistorical]_vars

\* ---- the stage-keyed aggregations on rows with a stage outside the four
UnknownStageCalls == <<"calculate_forecast", "calculate_historical_win_rates",
                       "calculate_stage_progression_analysis">>

InitUnknownStage ==
    InitWith(Files(UnknownStageRows), ProbabilityMaps, {ClockMar01}, UnknownStageCalls)

NextUnknownStage ==
    \/ Call_calculate_forecast
    \/ Call_calculate_historical_win_rates
    \/ Call_calculate_stage_progression_analysis

SpecUnknownStage == InitUnknownStage /\ [][NextUnknownStage]_vars

\* ---- a caller that reads the file and forecasts from what it read
\* read_opportunities appends every row csv.DictReader yields and returns the list
Call_read_opportunities ==
    /\ Next_call("read_opportunities")
    /\ opportunities' = read_opportunities(csv_file)
    /\ load' = [outcome |-> "ok"]
    /\ UNCHANGED <<stage_probabilities, clock, csv_file, metrics, forecast, rep_performance,
                   historical, sales_cycle, at_risk_opps, velocity_metrics, scenarios,
                   trend_analysis, cohort_analysis, stage_progression, performance,
                   forecast_csv, scenario_report>>

LoadCalls == <<"read_opportunities", "calculate_forecast">>

LoadFiles == Files(LoadRows) \cup Files(WithoutOwnerColumn(LoadRows))

InitLoad ==
    /\ csv_file \in {RowsOf(file) : file \in LoadFiles}
    /\ opportunities = <<>>
    /\ load = NotRun
    /\ stage_probabilities = DEFAULT_PROBABILITIES
    /\ clock = ClockMar01
    /\ pc = LoadCalls
    /\ metrics = NotRun
    /\ forecast = NotRun
    /\ rep_performance = NotRun
    /\ historical = NotRun
    /\ sales_cycle = NotRun
    /\ at_risk_opps = NotRun
    /\ velocity_metrics = NotRun
    /\ scenarios = NotRun
    /\ trend_analysis = NotRun
    /\ cohort_analysis = NotRun
    /\ stage_progression = NotRun
    /\ performance = NotRun
    /\ forecast_csv = NotRun
    /\ scenario_report = NotRun

NextLoad ==
    \/ Call_read_opportunities
    \/ Call_calculate_forecast

SpecLoad == InitLoad /\ [][NextLoad]_vars

\* the wall clock moves on between two calls: by an hour, or by thirty days
TickHours == {1, 24 * 30}

Tick ==
    /\ Next_call("tick")
    /\ \E hours \in TickHours : clock' = clock + hours
    /\ UNCHANGED <<opportunities, stage_probabilities, csv_file, load, metrics, forecast,
                   rep_performance,
                   historical, sales_cycle, at_risk_opps, velocity_metrics, scenarios,
                   trend_analysis, cohort_analysis, stage_progression, performance,
                   forecast_csv, scenario_report>>

\* ---- the two analyzers that read the clock, each called twice on the same
\* arguments with the clock moving on in between
ClockCalls == <<"calculate_sales_cycle_analysis",
                "identify_at_risk_opportunities", "tick", "identify_at_risk_opportunities",
                "calculate_stage_progression_analysis", "tick",
                "calculate_stage_progression_analysis">>

InitClock == InitWith(Files(MainRows), {DEFAULT_PROBABILITIES}, Clocks, ClockCalls)

NextClock ==
    \/ Call_calculate_sales_cycle_analysis
    \/ Call_identify_at_risk_opportunities
    \/ Call_calculate_stage_progression_analysis
    \/ Tick

SpecClock == InitClock /\ [][NextClock]_vars

\* ---- the rep report on teams of up to MaxCoachingOpps closed deals
InitCoaching ==
    InitWith(FilesUpTo(CoachingRows, MaxCoachingOpps), {DEFAULT_PROBABILITIES}, {ClockMar01},
             RepCalls)

SpecCoaching == InitCoaching /\ [][NextReps]_vars

\* ---- the monthly trends on rows that differ in close month
TrendCalls == <<"calculate_trend_analysis">>

InitTrends ==
    InitWith(FilesUpTo(TrendRows, MaxTrendOpps), {DEFAULT_PROBABILITIES}, {ClockMar01},
             TrendCalls)

NextTrends == Call_calculate_trend_analysis

SpecTrends == InitTrends /\ [][NextTrends]_vars

\* ---- the stage-keyed analyzers on rows that differ in stage and last_stage
StageCalls == <<"calculate_historical_win_rates", "calculate_sales_cycle_analysis",
                "calculate_scenario_analysis", "calculate_stage_progression_analysis">>

InitStages ==
    InitWith(Files(StageRows) \cup Files(WithoutLastStageColumn(StageRows)),
             {DEFAULT_PROBABILITIES}, {ClockMar16}, StageCalls)

NextStages ==
    \/ Call_calculate_historical_win_rates
    \/ Call_calculate_sales_cycle_analysis
    \/ Call_calculate_scenario_analysis
    \/ Call_calculate_stage_progression_analysis

SpecStages == InitStages /\ [][NextStages]_vars

\* ---- the scenarios and main's report of them
ScenarioReportCalls == <<"calculate_historical_win_rates", "calculate_sales_cycle_analysis",
                         "calculate_scenario_analysis", "report_scenarios">>

InitScenarioReport ==
    InitWith(Files(MainRows), {DEFAULT_PROBABILITIES}, {ClockMar01}, ScenarioReportCalls)

NextScenarioReport ==
    \/ Call_calculate_historical_win_rates
    \/ Call_calculate_sales_cycle_analysis
    \/ Call_calculate_scenario_analysis
    \/ Report_scenarios

SpecScenarioReport == InitScenarioReport /\ [][NextScenarioReport]_vars

\* ---- every analyzer, in the order in which main() calls them, then the
\* dashboard's calculate_metrics
AllCalls == <<"calculate_historical_win_rates", "calculate_sales_cycle_analysis",
              "identify_at_risk_opportunities", "calculate_sales_velocity",
              "calculate_scenario_analysis", "calculate_rep_performance",
              "calculate_trend_analysis", "calculate_cohort_analysis",
              "calculate_stage_progression_analysis", "calculate_forecast",
              "calculate_metrics">>

Init == InitWith(Files(MainRows), ProbabilityMaps, Clocks, AllCalls)

Next ==
    \/ Call_calculate_historical_win_rates
    \/ Call_calculate_sales_cycle_analysis
    \/ Call_identify_at_risk_opportunities
    \/ Call_calculate_sales_velocity
    \/ Call_calculate_scenario_analysis
    \/ Call_calculate_rep_performance
    \/ Call_calculate_trend_analysis
    \/ Call_calculate_cohort_analysis
    \/ Call_calculate_stage_progression_analysis
    \/ Call_calculate_forecast
    \/ Call_calculate_metrics

Spec == Init /\ [][Next]_vars

\* ================================================================== claims
\* sum of the values of a dict of numbers
RECURSIVE SumOfValues(_)
SumOfValues(f) ==
    IF DOMAIN f = {} THEN Zero
    ELSE LET k == CHOOSE x \in DOMAIN f : TRUE
         IN  QAdd(f[k], SumOfValues([x \in (DOMAIN f) \ {k} |-> f[x]]))

\* per row: the amount when the row is Open, else 0
OpenAmounts == [i \in 1..Len(opportunities) |->
                   IF opportunities[i].status = "Open" THEN opportunities[i].amount ELSE 0]

\* per row: amount times the configured probability of its stage when Open, else 0
OpenWeighted == [i \in 1..Len(opportunities) |->
                    IF opportunities[i].status = "Open"
                       /\ opportunities[i].stage \in DOMAIN stage_probabilities
                    THEN QMul(QI(opportunities[i].amount),
                              stage_probabilities[opportunities[i].stage])
                    ELSE Zero]

ProbabilitiesInUnit ==
    \A s \in DOMAIN stage_probabilities :
        QLe(Zero, stage_probabilities[s]) /\ QLe(stage_probabilities[s], One)

\* C1: whenever every configured probability lies in [0,1], calculate_metrics
\* returns a win rate between 0 and 1 and a weighted forecast that does not
\* exceed the total pipeline.
C1_MetricsBounds ==
    (metrics.outcome = "ok" /\ ProbabilitiesInUnit)
        => /\ QLe(Zero, metrics.win_rate)
           /\ QLe(metrics.win_rate, One)
           /\ QLe(metrics.weighted_forecast, metrics.total_pipeline)

\* metrics of a collection with wins, losses and a discounted open pipeline
C1_Witness ==
    /\ metrics.outcome = "ok"
    /\ ProbabilitiesInUnit
    /\ metrics.num_won >= 1
    /\ metrics.num_lost >= 1
    /\ QLt(Zero, metrics.weighted_forecast)
    /\ QLt(metrics.weighted_forecast, metrics.total_pipeline)

\* C2: total_pipeline is the sum of the amounts of exactly the Open rows,
\* weighted_forecast the sum over the same rows of amount times the mapped
\* probability of the row's stage (0 when the stage is not in the map), and
\* calculate_forecast returns the same weighted total as calculate_metrics;
\* Open 100000 in Discovery and Open 50000 in Demo with {Discovery 0.1,
\* Demo 0.3} give 150000 and 25000.
C2_PipelineAndForecast ==
    /\ metrics.outcome = "ok" =>
          /\ metrics.total_pipeline = QI(SumInt(OpenAmounts))
          /\ metrics.weighted_forecast = SumQ(OpenWeighted)
    /\ forecast.outcome # "notrun" =>
          /\ forecast.outcome = "ok"
          /\ forecast.total_forecast = metrics.weighted_forecast
    /\ (/\ metrics.outcome = "ok"
        /\ Len(opportunities) = 2
        /\ \A i \in 1..2 : opportunities[i].status = "Open"
        /\ opportunities[1].amount = 100000 /\ opportunities[1].stage = "Discovery"
        /\ opportunities[2].amount = 50000 /\ opportunities[2].stage = "Demo"
        /\ stage_probabilities = ExampleProbabilities)
          => /\ metrics.total_pipeline = QI(150000)
             /\ metrics.weighted_forecast = QI(25000)

\* both calls made on a collection with an Open row whose stage is not in the
\* map, next to Open rows that are, and rows that are not Open
C2_Witness ==
    /\ forecast.outcome = "ok"
    /\ \E i \in 1..Len(opportunities) :
          /\ opportunities[i].status = "Open"
          /\ opportunities[i].stage \notin DOMAIN stage_probabilities
    /\ \E i \in 1..Len(opportunities) : opportunities[i].status = "Won"
    /\ QLt(Zero, forecast.total_forecast)

\* C3: the open_pipeline of all owners returned by calculate_rep_performance
\* adds up to calculate_metrics' total_pipeline, and every row's owner is a key
\* of the result.
C3_RepPipelineAndOwners ==
    rep_performance.outcome = "ok" =>
        /\ SumOfValues([o \in DOMAIN rep_performance.reps |->
                           rep_performance.reps[o].open_pipeline]) = metrics.total_pipeline
        /\ \A i \in 1..Len(opportunities) :
              opportunities[i].owner \in DOMAIN rep_performance.reps

\* C4: in the stage-progression report total_entered does not increase along
\* Discovery, Demo, Proposal, Negotiation.
C4_EnteredNonIncreasing ==
    stage_progression.outcome = "ok" =>
        \A i \in 1..(Len(stage_order) - 1) :
            stage_progression.stage_stats[stage_order[i]].total_entered
                >= stage_progression.stage_stats[stage_order[i + 1]].total_entered

\* a report over deals that stopped at three different stages, one of them closed
C4_Witness ==
    /\ stage_progression.outcome = "ok"
    /\ stage_progression.stage_stats["Discovery"].total_entered = 3
    /\ stage_progression.stage_stats["Demo"].total_entered = 2
    /\ stage_progression.stage_stats["Proposal"].total_entered = 1
    /\ stage_progression.stage_stats["Negotiation"].total_entered = 1
    /\ \E i \in 1..Len(opportunities) : opportunities[i].status \in {"Won", "Lost"}

\* the rows created in the calendar month with key k
RowsCreatedIn(k) ==
    {i \in 1..Len(opportunities) :
        opportunities[i].created_date[1] * 100 + opportunities[i].created_date[2] = k}

\* C5: the cohorts' totals add up to the number of rows, each row being
\* counted in the cohort of the calendar month of its created_date and in no
\* other.
C5_CohortTotals ==
    cohort_analysis.outcome # "notrun" =>
        /\ cohort_analysis.outcome = "ok"
        /\ \A i \in 1..Len(opportunities) :
              opportunities[i].created_date[1] * 100 + opportunities[i].created_date[2]
                  \in DOMAIN cohort_analysis.cohorts
        /\ \A k \in DOMAIN cohort_analysis.cohorts :
              cohort_analysis.cohorts[k].total = Cardinality(RowsCreatedIn(k))
        /\ SumOfValues([k \in DOMAIN cohort_analysis.cohorts |->
                           QI(cohort_analysis.cohorts[k].total)]) = QI(Len(opportunities))

\* two cohorts, one of them with two rows, and a row of unrecognised status
C5_Witness ==
    /\ cohort_analysis.outcome = "ok"
    /\ Len(opportunities) = 3
    /\ Cardinality(DOMAIN cohort_analysis.cohorts) = 2
    /\ \E i \in 1..3 : opportunities[i].status \notin {"Open", "Won", "Lost"}
    /\ \E i \in 1..3 : opportunities[i].status = "Won"

\* today - created_date in whole days, today being the clock's calendar day
DaysInPipeline(i) == (clock \div 24) - parse_date(opportunities[i].created_date)

\* the Open rows that are older than the average cycle passed to the call
Overdue ==
    {i \in 1..Len(opportunities) :
        /\ opportunities[i].status = "Open"
        /\ QLt(sales_cycle.avg_cycle, QI(DaysInPipeline(i)))}

\* C6: identify_at_risk_opportunities returns exactly the Open rows whose days
\* in pipeline exceed avg_cycle, each once, with days_over = days_in_pipeline -
\* avg_cycle (so days_over > 0), in order of non-increasing days_over.
C6_AtRiskExact ==
    at_risk_opps.outcome # "notrun" =>
        LET lst == at_risk_opps.at_risk
        IN  /\ at_risk_opps.outcome = "ok"
            /\ {lst[j].id : j \in 1..Len(lst)} = Overdue
            /\ Len(lst) = Cardinality(Overdue)
            /\ \A j \in 1..Len(lst) :
                  /\ lst[j].days_in_pipeline = DaysInPipeline(lst[j].id)
                  /\ lst[j].days_over =
                         QSub(QI(lst[j].days_in_pipeline), sales_cycle.avg_cycle)
                  /\ QLt(Zero, lst[j].days_over)
            /\ \A j \in 1..(Len(lst) - 1) : QLe(lst[j + 1].days_over, lst[j].days_over)

\* a positive average cycle, and two flagged rows that the sort has swapped
C6_Witness ==
    /\ at_risk_opps.outcome = "ok"
    /\ QLt(Zero, sales_cycle.avg_cycle)
    /\ Len(at_risk_opps.at_risk) = 2
    /\ at_risk_opps.at_risk[1].id > at_risk_opps.at_risk[2].id
    /\ QLt(at_risk_opps.at_risk[2].days_over, at_risk_opps.at_risk[1].days_over)

\* C7: with no Won row in the collection the at-risk list computed from
\* calculate_sales_cycle_analysis' average is empty.
C7_NoBaselineNoAtRisk ==
    (/\ at_risk_opps.outcome = "ok"
     /\ \A i \in 1..Len(opportunities) : opportunities[i].status # "Won")
        => at_risk_opps.at_risk = <<>>

\* C8: on the empty collection every analyzer returns, and every ratio or
\* mean in its report is 0.
C8_EmptyCollection ==
    opportunities = <<>> =>
        /\ metrics.outcome # "notrun" =>
              /\ metrics.outcome = "ok"
              /\ metrics.win_rate = Zero
              /\ metrics.avg_deal_size = Zero
              /\ metrics.avg_cycle = Zero
              /\ metrics.sales_velocity = Zero
              /\ metrics.total_pipeline = Zero
              /\ metrics.weighted_forecast = Zero
        /\ sales_cycle.outcome # "notrun" =>
              /\ sales_cycle.outcome = "ok"
              /\ sales_cycle.avg_cycle = Zero
              /\ sales_cycle.median_cycle = Zero
              /\ DOMAIN sales_cycle.stage_cycle_stats = {}
        /\ at_risk_opps.outcome # "notrun" =>
              /\ at_risk_opps.outcome = "ok"
              /\ at_risk_opps.at_risk = <<>>
        /\ velocity_metrics.outcome # "notrun" =>
              /\ velocity_metrics.outcome = "ok"
              /\ velocity_metrics.overall_win_rate = Zero
              /\ velocity_metrics.avg_deal_size = Zero
              /\ velocity_metrics.sales_velocity = Zero
              /\ \A days \in {30, 60, 90} : velocity_metrics.projections[days] = Zero
        /\ historical.outcome # "notrun" =>
              /\ historical.outcome = "ok"
              /\ DOMAIN historical.historical_rates = {}
        /\ scenarios.outcome # "notrun" =>
              /\ scenarios.outcome = "ok"
              /\ \A name \in {"best", "expected", "worst"} :
                    scenarios.scenarios[name].forecast = Zero
        /\ rep_performance.outcome # "notrun" =>
              /\ rep_performance.outcome = "ok"
              /\ DOMAIN rep_performance.reps = {}
        /\ stage_progression.outcome # "notrun" =>
              /\ stage_progression.outcome = "ok"
              /\ \A stage \in StageNames :
                    /\ stage_progression.stage_stats[stage].win_rate = Zero
                    /\ stage_progression.stage_stats[stage].loss_rate = Zero
                    /\ stage_progression.stage_stats[stage].conversion_rate = Zero
                    /\ stage_progression.stage_stats[stage].avg_days_in_stage = Zero
              /\ DOMAIN stage_progression.stage_transitions = {}
        /\ cohort_analysis.outcome # "notrun" =>
              /\ cohort_analysis.outcome = "ok"
              /\ DOMAIN cohort_analysis.cohorts = {}
        /\ trend_analysis.outcome # "notrun" =>
              /\ trend_analysis.outcome = "ok"
              /\ trend_analysis.avg_monthly_revenue = Zero
              /\ trend_analysis.avg_win_rate = Zero
              /\ trend_analysis.next_quarter_projection = Zero
              /\ trend_analysis.pipeline_coverage = Zero
        /\ forecast.outcome # "notrun" =>
              /\ forecast.outcome = "ok"
              /\ forecast.total_forecast = Zero

\* every analyzer has been called on the empty collection
C8_Witness ==
    /\ opportunities = <<>>
    /\ pc = <<>>
    /\ metrics.outcome = "ok"
    /\ trend_analysis.outcome = "ok"
    /\ scenarios.outcome = "ok"

\* C9: calculate_scenario_analysis never raises, whatever the number of Won
\* cycle lengths, and with no Won deal all three cycle values are 100.
C9_ScenarioNeverRaises ==
    scenarios.outcome # "notrun" =>
        /\ scenarios.outcome = "ok"
        /\ sales_cycle.won_cycles = <<>> =>
              \A name \in {"best", "expected", "worst"} :
                  scenarios.scenarios[name].cycle = QI(100)

\* the effective stage of a row: its last_stage when it has a value, else its stage
EffectiveStage(i) ==
    IF "last_stage" \in DOMAIN opportunities[i] /\ opportunities[i].last_stage # ""
    THEN opportunities[i].last_stage
    ELSE opportunities[i].stage

ClosedAt(stage) ==
    {i \in 1..Len(opportunities) :
        opportunities[i].status \in {"Won", "Lost"} /\ EffectiveStage(i) = stage}

WonAt(stage) == {i \in ClosedAt(stage) : opportunities[i].status = "Won"}

\* the rate the claim starts from: historical where the stage has closed deals
ClaimedRate(stage) ==
    IF ClosedAt(stage) # {}
    THEN Q(Cardinality(WonAt(stage)), Cardinality(ClosedAt(stage)))
    ELSE CASE stage = "Discovery"   -> Q(1, 10)
           [] stage = "Demo"        -> Q(3, 10)
           [] stage = "Proposal"    -> Q(5, 10)
           [] stage = "Negotiation" -> Q(7, 10)

\* C10: per stage the scenario rates are min(1, 1.3 r), r and 0.7 r, with r the
\* win rate of the closed deals whose effective stage is that stage, or the
\* default when there are none; each scenario's forecast is the sum over the
\* Open rows of amount times the scenario's rate for the row's stage.
C10_ScenarioRates ==
    scenarios.outcome = "ok" =>
        /\ \A stage \in StageNames :
              /\ scenarios.scenarios["expected"].rates[stage] = ClaimedRate(stage)
              /\ scenarios.scenarios["best"].rates[stage] =
                     (IF QLt(One, QMul(ClaimedRate(stage), Q(13, 10)))
                      THEN One ELSE QMul(ClaimedRate(stage), Q(13, 10)))
              /\ scenarios.scenarios["worst"].rates[stage] =
                     QMul(ClaimedRate(stage), Q(7, 10))
        /\ \A name \in {"best", "expected", "worst"} :
              scenarios.scenarios[name].forecast =
                  SumQ([i \in 1..Len(opportunities) |->
                           IF opportunities[i].status = "Open"
                              /\ opportunities[i].stage \in StageNames
                           THEN QMul(QI(opportunities[i].amount),
                                     scenarios.scenarios[name].rates[opportunities[i].stage])
                           ELSE Zero])

\* the closed and the Won rows of the whole file
ClosedRows == {i \in 1..Len(opportunities) : opportunities[i].status \in {"Won", "Lost"}}

WonRows == {i \in 1..Len(opportunities) : opportunities[i].status = "Won"}

\* team win rate: all Won rows over all closed rows
TeamWinRate ==
    IF ClosedRows = {} THEN Zero ELSE Q(Cardinality(WonRows), Cardinality(ClosedRows))

\* team average deal: the amount of all Won rows over their number
TeamAvgDeal ==
    IF WonRows = {} THEN Zero
    ELSE QDiv(QI(SumInt([i \in 1..Len(opportunities) |->
                            IF i \in WonRows THEN opportunities[i].amount ELSE 0])),
              QI(Cardinality(WonRows)))

\* the tier the claim gives to a rep
ClaimedTier(stats) ==
    CASE stats.closed_count < 3 -> "Insufficient data"
      [] stats.closed_count >= 3
         /\ QLe(QMul(TeamWinRate, Q(11, 10)), stats.win_rate)
         /\ QLe(QMul(TeamAvgDeal, Q(9, 10)), stats.avg_deal_size) -> "Top Performer"
      [] stats.closed_count >= 3
         /\ ~(/\ QLe(QMul(TeamWinRate, Q(11, 10)), stats.win_rate)
              /\ QLe(QMul(TeamAvgDeal, Q(9, 10)), stats.avg_deal_size))
         /\ (\/ QLt(stats.win_rate, QMul(TeamWinRate, Q(8, 10)))
             \/ QLt(stats.avg_deal_size, QMul(TeamAvgDeal, Q(7, 10)))) -> "Needs Coaching"
      [] OTHER -> "On Track"

\* C11: the report gives every rep of rep_performance exactly one tier, and
\* it is the one the rule gives: Insufficient data below 3 closed deals, else
\* Top Performer, Needs Coaching or On Track by the comparison with the team
\* win rate and the team average deal taken over all reps' rows.
C11_RepTiers ==
    performance.outcome # "notrun" =>
        /\ performance.outcome = "ok"
        /\ performance.team_win_rate = TeamWinRate
        /\ performance.team_avg_deal = TeamAvgDeal
        /\ DOMAIN performance.tiers = DOMAIN rep_performance.reps
        /\ \A owner \in DOMAIN performance.tiers :
              performance.tiers[owner] = ClaimedTier(rep_performance.reps[owner])

\* a rep with three closed deals who is on track next to a rep without enough deals
C11_Witness ==
    /\ performance.outcome = "ok"
    /\ \E a, b \in DOMAIN performance.tiers :
          /\ performance.tiers[a] = "On Track"
          /\ performance.tiers[b] = "Insufficient data"
          /\ QLt(rep_performance.reps[a].win_rate, performance.team_win_rate)

\* the stage a row is attributed to: the effective stage when closed, the
\* current stage when Open
AttributedStage(i) ==
    IF opportunities[i].status \in {"Won", "Lost"} THEN EffectiveStage(i)
    ELSE opportunities[i].stage

\* the Open/Won/Lost rows attributed to one of the four stages at or after stage
EnteredRows(stage) ==
    {i \in 1..Len(opportunities) :
        /\ opportunities[i].status \in {"Open", "Won", "Lost"}
        /\ AttributedStage(i) \in StageNames
        /\ stage_to_index(AttributedStage(i)) >= stage_to_index(stage)}

\* C12: a Won/Lost deal is attributed to its last_stage when it has a value
\* and to its stage otherwise, an Open deal to its stage; total_entered of a
\* stage counts the deals attributed to that stage or a later one, and the
\* historical statistics count each closed deal under its effective stage.
C12_EffectiveStage ==
    /\ stage_progression.outcome = "ok" =>
          \A stage \in StageNames :
              stage_progression.stage_stats[stage].total_entered
                  = Cardinality(EnteredRows(stage))
    /\ historical.outcome = "ok" =>
          \A stage \in StageNames :
              Get(historical.stage_stats, stage, hist_default).total
                  = Cardinality(ClosedAt(stage))

\* elapsed days of a row: close - created when closed, today - created when Open
Elapsed(i) ==
    IF opportunities[i].status \in {"Won", "Lost"}
    THEN parse_date(opportunities[i].close_date) - parse_date(opportunities[i].created_date)
    ELSE (clock \div 24) - parse_date(opportunities[i].created_date)

\* the equal share a row gives to every stage it reached
Contribution(i) == Q(Elapsed(i), stage_to_index(AttributedStage(i)) + 1)

\* mean of the contributions to a stage, 0 when it has none
MeanContribution(stage) ==
    IF EnteredRows(stage) = {} THEN Zero
    ELSE QDiv(SumQ([i \in 1..Len(opportunities) |->
                       IF i \in EnteredRows(stage) THEN Contribution(i) ELSE Zero]),
              QI(Cardinality(EnteredRows(stage))))

\* C13: every deal with a recognised stage of index k contributes
\* elapsed/(k+1) to each of the stages 0..k; avg_days_in_stage is the mean of
\* a stage's contributions (0 without any) and stuck_count the number of its
\* contributions strictly above 1.5 times that mean.
C13_TimeInStage ==
    stage_progression.outcome = "ok" =>
        \A stage \in StageNames :
            /\ stage_progression.stage_stats[stage].avg_days_in_stage
                   = MeanContribution(stage)
            /\ stage_progression.stage_stats[stage].stuck_count
                   = Cardinality({i \in EnteredRows(stage) :
                        QLt(QMul(MeanContribution(stage), Q(3, 2)), Contribution(i))})

\* the number of deals the report counts as having entered the stage at position i
Entered(i) == stage_progression.stage_stats[stage_order[i]].total_entered

\* the transition entry from the stage at position i is as the claim says
TransitionAsClaimed(i) ==
    LET t == stage_progression.stage_transitions[i]
    IN  /\ t.from_stage = stage_order[i]
        /\ t.to_stage = stage_order[i + 1]
        /\ t.progression_rate = Q(Entered(i + 1), Entered(i))
        /\ t.drop_off_rate = QSub(One, t.progression_rate)
        /\ t.dropped = Entered(i) - Entered(i + 1)
        /\ QLe(Zero, t.progression_rate) /\ QLe(t.progression_rate, One)
        /\ QLe(Zero, t.drop_off_rate) /\ QLe(t.drop_off_rate, One)
        /\ t.dropped >= 0

\* C14 as stated: the report has an entry for each of the three adjacent
\* pairs, with progression_rate = entered(next)/entered(current), drop_off_rate
\* = 1 - progression_rate, dropped = entered(current) - entered(next), rates in
\* [0,1] and dropped >= 0.
C14_AllTransitions ==
    stage_progression.outcome = "ok" =>
        \A i \in 1..3 :
            /\ i \in DOMAIN stage_progression.stage_transitions
            /\ TransitionAsClaimed(i)

\* C14 amended: the report has an entry for exactly the adjacent pairs whose
\* first stage was entered by at least one deal, and each entry is as stated.
C14_TransitionsOfEnteredStages ==
    stage_progression.outcome = "ok" =>
        /\ DOMAIN stage_progression.stage_transitions = {i \in 1..3 : Entered(i) > 0}
        /\ \A i \in DOMAIN stage_progression.stage_transitions : TransitionAsClaimed(i)

\* three entries, deals dropping between the first two stages and none
\* between the last two
C14_Witness ==
    /\ stage_progression.outcome = "ok"
    /\ DOMAIN stage_progression.stage_transitions = {1, 2, 3}
    /\ stage_progression.stage_transitions[1].dropped > 0
    /\ stage_progression.stage_transitions[3].progression_rate = One

\* k is the earliest of the keys (positions) at which value is the maximum,
\* and that maximum is positive
EarliestPositiveMax(k, keys, value) ==
    /\ k \in keys
    /\ QLt(Zero, value[k])
    /\ \A j \in keys : QLe(value[j], value[k])
    /\ \A j \in keys : j < k => QLt(value[j], value[k])

DropOffRates ==
    [i \in DOMAIN stage_progression.stage_transitions |->
        stage_progression.stage_transitions[i].drop_off_rate]

AvgDaysByPosition ==
    [i \in 1..Len(stage_order) |->
        stage_progression.stage_stats[stage_order[i]].avg_days_in_stage]

StuckByPosition ==
    [i \in 1..Len(stage_order) |->
        QI(stage_progression.stage_stats[stage_order[i]].stuck_count)]

\* C15: biggest_bottleneck is the earliest transition with the maximal
\* drop_off_rate, slowest_stage the earliest stage with the maximal
\* avg_days_in_stage, stickiest_stage the earliest stage with the maximal
\* stuck_count; each is null exactly when no value of its measure is positive.
C15_Pointers ==
    stage_progression.outcome = "ok" =>
        /\ IF \E i \in DOMAIN DropOffRates : QLt(Zero, DropOffRates[i])
           THEN \E k \in DOMAIN DropOffRates :
                   /\ EarliestPositiveMax(k, DOMAIN DropOffRates, DropOffRates)
                   /\ stage_progression.biggest_bottleneck
                          = stage_progression.stage_transitions[k]
           ELSE stage_progression.biggest_bottleneck = None
        /\ IF \E i \in 1..4 : QLt(Zero, AvgDaysByPosition[i])
           THEN \E k \in 1..4 :
                   /\ EarliestPositiveMax(k, 1..4, AvgDaysByPosition)
                   /\ stage_progression.slowest_stage = stage_order[k]
           ELSE stage_progression.slowest_stage = "None"
        /\ IF \E i \in 1..4 : QLt(Zero, StuckByPosition[i])
           THEN \E k \in 1..4 :
                   /\ EarliestPositiveMax(k, 1..4, StuckByPosition)
                   /\ stage_progression.stickiest_stage = stage_order[k]
           ELSE stage_progression.stickiest_stage = "None"

\* two stages tie for the slowest, the bottleneck is not the first transition,
\* and a stage has a stuck deal
C15_Witness ==
    /\ stage_progression.outcome = "ok"
    /\ stage_progression.slowest_stage = "Discovery"
    /\ AvgDaysByPosition[2] = AvgDaysByPosition[1]
    /\ stage_progression.biggest_bottleneck # None
    /\ stage_progression.biggest_bottleneck.from_stage # "Discovery"
    /\ stage_progression.stickiest_stage # "None"

\* the rows of cohort k with the given status
CohortRows(k, status) == {i \in RowsCreatedIn(k) : opportunities[i].status = status}

\* C16: in every cohort won, lost and open are the numbers of its rows with
\* status Won, Lost and Open (a row of any other status is in none of them),
\* conversion_rate = (won + lost)/total, and win_rate = won/(won + lost), or 0
\* when the cohort has no closed row.
C16_CohortFields ==
    cohort_analysis.outcome = "ok" =>
        \A k \in DOMAIN cohort_analysis.cohorts :
            LET c == cohort_analysis.cohorts[k]
            IN  /\ c.won = Cardinality(CohortRows(k, "Won"))
                /\ c.lost = Cardinality(CohortRows(k, "Lost"))
                /\ c.open = Cardinality(CohortRows(k, "Open"))
                /\ c.conversion_rate = Q(c.won + c.lost, c.total)
                /\ c.win_rate = (IF c.won + c.lost > 0
                                 THEN Q(c.won, c.won + c.lost) ELSE Zero)

\* the cohort keys in calendar order
CohortKeys == SortedKeys(DOMAIN cohort_analysis.cohorts)

\* the trend the claim gives: last against first of the three latest cohorts
ClaimedCohortTrend ==
    IF Len(CohortKeys) < 3 THEN "stable"
    ELSE LET first == cohort_analysis.cohorts[CohortKeys[Len(CohortKeys) - 2]].win_rate
             last  == cohort_analysis.cohorts[CohortKeys[Len(CohortKeys)]].win_rate
         IN  IF QLt(Q(1, 10), QSub(last, first)) THEN "improving"
             ELSE IF QLt(Q(1, 10), QSub(first, last)) THEN "declining"
             ELSE "stable"

\* C17: cohort_trend compares the win rate of the last of the three latest
\* cohorts with that of the first of them (a cohort with win rate 0 included):
\* improving above +0.10, declining below -0.10, else stable; stable with
\* fewer than three cohorts.
C17_CohortTrend ==
    cohort_analysis.outcome = "ok" =>
        cohort_analysis.cohort_trend = ClaimedCohortTrend

\* the months in which a deal was closed, in calendar order
CloseMonths ==
    SortedKeys({MonthKey(opportunities[i].close_date) : i \in ClosedRows})

\* the window of the trends: the last min(3, n) close months
TrendWindow == LastThree(CloseMonths)

ClosedIn(month) == {i \in ClosedRows : MonthKey(opportunities[i].close_date) = month}

\* revenue of a month: the amounts of the deals won in it
RevenueOf(month) ==
    QI(SumInt([i \in 1..Len(opportunities) |->
                  IF i \in ClosedIn(month) /\ i \in WonRows
                  THEN opportunities[i].amount ELSE 0]))

\* win rate of a month with closed deals
WinRateOf(month) ==
    Q(Cardinality(ClosedIn(month) \cap WonRows), Cardinality(ClosedIn(month)))

ClaimedRevenueTrend ==
    IF Len(TrendWindow) < 2 THEN "stable"
    ELSE LET first == RevenueOf(TrendWindow[1])
             last  == RevenueOf(TrendWindow[Len(TrendWindow)])
         IN  IF QLt(Zero, first) /\ QLt(Q(1, 10), QDiv(QSub(last, first), first))
             THEN "improving"
             ELSE IF QLt(Zero, first) /\ QLt(QDiv(QSub(last, first), first), Q(-1, 10))
             THEN "declining"
             ELSE "stable"

ClaimedWinRateTrend ==
    IF Len(TrendWindow) < 2 THEN "stable"
    ELSE LET first == WinRateOf(TrendWindow[1])
             last  == WinRateOf(TrendWindow[Len(TrendWindow)])
         IN  IF QLt(Q(5, 100), QSub(last, first)) THEN "improving"
             ELSE IF QLt(QSub(last, first), Q(-5, 100)) THEN "declining"
             ELSE "stable"

\* C19: win_rate_trend compares the win rates of the first and the last month
\* of the window that have closed deals (a month whose deals were all lost
\* has the defined win rate 0): improving above +0.05, declining below -0.05,
\* else stable.
C19_WinRateTrend ==
    trend_analysis.outcome = "ok" =>
        trend_analysis.win_rate_trend = ClaimedWinRateTrend

\* C20: the call returns on every input; with at least three close months
\* next_quarter_projection is 3 times the mean revenue of the last three, with
\* fewer it is 0.
C20_Projection ==
    trend_analysis.outcome # "notrun" =>
        /\ trend_analysis.outcome = "ok"
        /\ trend_analysis.next_quarter_projection =
              (IF Len(CloseMonths) >= 3
               THEN QAdd(RevenueOf(TrendWindow[1]),
                         QAdd(RevenueOf(TrendWindow[2]), RevenueOf(TrendWindow[3])))
               ELSE Zero)

\* C21: the at-risk list and the stage-progression report depend on their
\* arguments only: a second call with the same opportunities (and the same
\* avg_cycle), made at a later wall-clock time, returns what the first returned.
C21_SameArgumentsSameResult ==
    [][/\ (at_risk_opps.outcome = "ok" /\ at_risk_opps'.outcome = "ok")
            => at_risk_opps' = at_risk_opps
       /\ (stage_progression.outcome = "ok" /\ stage_progression'.outcome = "ok")
            => stage_progression' = stage_progression]_vars

\* C22: no step of a run, a run in historical-rate mode included, changes the
\* opportunity records, the probability map the caller supplied, or the
\* historical rates once they are computed.
C22_InputsUnchanged ==
    [][/\ opportunities' = opportunities
       /\ stage_probabilities' = stage_probabilities
       /\ historical.outcome = "ok" => historical' = historical]_vars

\* per row: amount times the configured probability when the row is Open and
\* its stage is one of the four, else 0
OpenWeightedKnownStage ==
    [i \in 1..Len(opportunities) |->
        IF /\ opportunities[i].status = "Open"
           /\ opportunities[i].stage \in StageNames
           /\ opportunities[i].stage \in DOMAIN stage_probabilities
        THEN QMul(QI(opportunities[i].amount), stage_probabilities[opportunities[i].stage])
        ELSE Zero]

\* C23: a row whose stage is none of the four adds 0 to the weighted forecast
\* and is in no stage-keyed aggregation: stage_breakdown and the historical
\* per-stage stats have keys among the four stages only, and total_entered,
\* won_from_here, lost_from_here and days_in_stage of the four stages count
\* only the rows attributed to one of the four.
C23_UnknownStageExcluded ==
    /\ forecast.outcome = "ok" =>
          /\ forecast.total_forecast = SumQ(OpenWeightedKnownStage)
          /\ DOMAIN forecast.stage_breakdown \subseteq StageNames
    /\ historical.outcome = "ok" =>
          DOMAIN historical.stage_stats \subseteq StageNames
    /\ stage_progression.outcome = "ok" =>
          \A stage \in StageNames :
              LET st == stage_progression.stage_stats[stage]
              IN  /\ st.total_entered = Cardinality(EnteredRows(stage))
                  /\ st.won_from_here = Cardinality(WonAt(stage))
                  /\ st.lost_from_here = Cardinality(ClosedAt(stage) \ WonAt(stage))
                  /\ Len(st.days_in_stage) = Cardinality(EnteredRows(stage))

\* ---- C24
RequiredFields == {"amount", "stage", "status", "owner", "created_date", "close_date"}

IsCalendarDate(d) ==
    /\ Len(d) = 3
    /\ d[2] \in 1..12
    /\ d[3] \in 1..DaysInMonth(d[1], d[2])

LacksField(row) == ~(RequiredFields \subseteq DOMAIN row)

\* a date cell that is not a calendar date (the close_date of an Open row is empty)
HasBadDate(row) ==
    \/ "created_date" \in DOMAIN row /\ ~IsCalendarDate(row.created_date)
    \/ /\ "close_date" \in DOMAIN row
       /\ ~IsCalendarDate(row.close_date)
       /\ ~(row.close_date = NoDate /\ "status" \in DOMAIN row /\ row.status = "Open")

FileLacksField == \E i \in 1..Len(csv_file) : LacksField(csv_file[i])

FileHasBadDate == \E i \in 1..Len(csv_file) : HasBadDate(csv_file[i])

\* C24: once read_opportunities has ended, a file with a record lacking a
\* required field made it end in SchemaError and a file with a date that is no
\* YYYY-MM-DD calendar date made it end in DateParseError; no such record is in
\* the list handed on, and no analyzer has run on such a file.
C24_LoadRejectsBadRecords ==
    load.outcome # "notrun" =>
        /\ FileLacksField => load.outcome = "SchemaError"
        /\ (FileHasBadDate /\ ~FileLacksField) => load.outcome = "DateParseError"
        /\ \A i \in 1..Len(opportunities) :
               ~LacksField(opportunities[i]) /\ ~HasBadDate(opportunities[i])
        /\ (FileLacksField \/ FileHasBadDate) => forecast.outcome = "notrun"

\* ---- C25
OpenRows == SelectSeq(opportunities, LAMBDA opp : opp.status = "Open")

ClaimedWeight(opp) ==
    IF opp.stage \in DOMAIN stage_probabilities
    THEN QMul(QI(opp.amount), stage_probabilities[opp.stage])
    ELSE Zero

ExportRows == SubSeq(forecast_csv.forecast_data, 1, Len(forecast_csv.forecast_data) - 1)

ExportTotalRow == forecast_csv.forecast_data[Len(forecast_csv.forecast_data)]

LeftAt(stage) ==
    stage_progression.stage_stats[stage].won_from_here
        + stage_progression.stage_stats[stage].lost_from_here
        + stage_progression.stage_stats[stage].currently_in_stage

RECURSIVE LeftFrom(_)
LeftFrom(i) == IF i > Len(stage_order) THEN 0 ELSE LeftAt(stage_order[i]) + LeftFrom(i + 1)

FunnelIdentity == \A i \in 1..Len(stage_order) : Entered(i) = LeftFrom(i)

DroppedIsLeft ==
    \A i \in DOMAIN stage_progression.stage_transitions :
        stage_progression.stage_transitions[i].dropped = LeftAt(stage_order[i])

ClosedCountedAtFinalStage ==
    \A stage \in StageNames :
        /\ stage_progression.stage_stats[stage].won_from_here = Cardinality(WonAt(stage))
        /\ stage_progression.stage_stats[stage].lost_from_here
               = Cardinality(ClosedAt(stage) \ WonAt(stage))

\* C26: in every report, total_entered of a stage is the sum of won_from_here
\* + lost_from_here + currently_in_stage over that stage and the later ones;
\* the dropped count of a transition is that sum's term of its from-stage; and
\* each closed deal is counted as won or lost at its final stage and nowhere else.
C26_FunnelAccounting ==
    stage_progression.outcome = "ok" =>
        FunnelIdentity /\ DroppedIsLeft /\ ClosedCountedAtFinalStage

\* ---- C27
ShortestWonCycle == QI(sorted(sales_cycle.won_cycles)[1])

LongestWonCycle == QI(sorted(sales_cycle.won_cycles)[Len(sales_cycle.won_cycles)])

\* C27: when calculate_scenario_analysis returns on a non-empty sample of
\* non-negative Won cycle lengths, the cycle times are ordered shortest
\* observed <= best <= expected <= worst <= longest observed; so the best-case
\* cycle is neither negative nor shorter than the shortest Won cycle.
C27_CycleTimesWithinSample ==
    (/\ scenarios.outcome = "ok"
     /\ sales_cycle.won_cycles # <<>>
     /\ \A i \in 1..Len(sales_cycle.won_cycles) : sales_cycle.won_cycles[i] >= 0) =>
        /\ QLe(ShortestWonCycle, scenarios.scenarios["best"].cycle)
        /\ QLe(scenarios.scenarios["best"].cycle, scenarios.scenarios["expected"].cycle)
        /\ QLe(scenarios.scenarios["expected"].cycle, scenarios.scenarios["worst"].cycle)
        /\ QLe(scenarios.scenarios["worst"].cycle, LongestWonCycle)
        /\ QLe(Zero, scenarios.scenarios["best"].cycle)

\* ---- C28
\* C28: in the performance table a rep with at least 3 closed deals and no Won
\* deal is never a Top Performer, whoever else is in the team and also when
\* the team has no Won deal at all.
C28_NoWinNeverTop ==
    performance.outcome = "ok" =>
        \A owner \in DOMAIN performance.tiers :
            (/\ rep_performance.reps[owner].closed_count >= 3
             /\ rep_performance.reps[owner].won_count = 0)
                => performance.tiers[owner] # "Top Performer"

\* ---- C29
\* C29: every rep of the Coaching Insights list of top performers has the
\* table's label Top Performer, every rep of its needs-coaching list has the
\* label Needs Coaching, and no rep is in both lists.
C29_ListsAgreeWithTable ==
    performance.outcome = "ok" =>
        /\ \A owner \in performance.top_performers :
               performance.tiers[owner] = "Top Performer"
        /\ \A owner \in performance.needs_coaching :
               performance.tiers[owner] = "Needs Coaching"
        /\ performance.top_performers \cap performance.needs_coaching = {}

\* ---- C30
\* C30: the scenario report never ends in a division by zero; when the
\* expected-scenario forecast is 0 the two vs-Expected percentages and the
\* range width as a percentage of expected have a value.
C30_ScenarioReportDefined ==
    scenario_report.outcome # "notrun" =>
        /\ scenario_report.outcome # "ZeroDivisionError"
        /\ scenarios.scenarios["expected"].forecast = Zero =>
              /\ scenario_report.outcome = "ok"
              /\ scenario_report.best_pct = Zero
              /\ scenario_report.worst_pct = Zero


====
